---- MODULE Spec2Model ----
(***************************************************************************)
(* Toyota dealership dashboard: the report ingestion pipeline (Row         *)
(* Normalizer, ingestion log, transactional upsert loader, the MySQL       *)
(* tables of schema.sql), the upload path of the dashboard (handleSubmit   *)
(* -> /api/upload-reports -> FastAPI /upload-reports), the queries of the  *)
(* Metrics Engine with the pages that show them, the date helpers of the   *)
(* pages, and sign-in with the proxy that guards /manager-dashboard.       *)
(*                                                                         *)
(* The Python code (database/populate_db.py, database/lib/db.py, the       *)
(* FastAPI endpoints) is not among the source files; the loader, the Row   *)
(* Normalizer and the queries are modelled from the specification,         *)
(* sections 4.1 to 4.4, 5 and 9, on top of the table definitions of        *)
(* schema.sql, the ingestion notes of schema.md and the documented         *)
(* responses of the endpoints, which are.                                  *)
(***************************************************************************)
EXTENDS Integers, Sequences, FiniteSets, Bags, TLC

\* ------------------------------------------------------------------ bounds
\* Ingestion requests submitted in one behaviour.
MaxRequests == 3
\* Two clients ingest concurrently; each runs one request at a time.
Slots == {"A", "B"}

NULL == "NULL"

\* ------------------------------------------------------- schema.sql (DDL)
Tables == {"technician_reports", "daily_cpus_reports", "repeat_repairs"}

\* `id` INT NOT NULL AUTO_INCREMENT, PRIMARY KEY (`id`)
AutoIncrementId(t) == t \in {"technician_reports", "daily_cpus_reports"}

\* technician_reports: PRIMARY KEY (`id`), INDEX (`ro_no`): ro_no is not unique.
TechRoNoPrimaryKey == TRUE
TechRoNoUnique == FALSE

\* daily_cpus_reports: PRIMARY KEY (`id`), INDEX (`ro_no`): ro_no is not unique.
DailyRoNoPrimaryKey == TRUE
DailyRoNoUnique == FALSE

\* repeat_repairs: `date` DATE NOT NULL, PRIMARY KEY (`date`).
RepeatDateIndexOnly == FALSE
RepeatDateUnique == TRUE

\* Whether the storage layer holds at most one row per natural key of t
\* (ro_no of the two report tables, date of repeat_repairs).
UniqueOnNaturalKey(t) ==
    CASE t = "technician_reports" -> TechRoNoUnique
      [] t = "daily_cpus_reports" -> DailyRoNoUnique
      [] t = "repeat_repairs"     -> RepeatDateUnique

\* ------------------------------------------------------------ input files
\* Each source file comes in two versions, told apart by modification time.
Mtimes == {1, 2}

\* One source CSV per target table (schema.md names the three files).
FileName(t) ==
    CASE t = "technician_reports" -> "technician.csv"
      [] t = "daily_cpus_reports" -> "daily.csv"
      [] t = "repeat_repairs"     -> "repeat.csv"

\* The normalized rows of the file version (t, m): natural key k and two
\* non-key columns.
\*   technician_reports: k = ro_no, c1 = technician_name, c2 = operations;
\*     two job lines of one repair order, the same in every version.
\*   daily_cpus_reports: k = ro_no, c1 = delivery_date_time, c2 = status;
\*     a later version has a later delivery time and an empty status.
\*   repeat_repairs: k = date, c1 = total_vehicle_delivered,
\*     c2 = repeat_repair_count; the versions list the dates in opposite
\*     orders and the later one leaves one metric of each date empty.
FileRows(t, m) ==
    CASE t = "technician_reports" ->
           << [k |-> "RO1", c1 |-> "Ali",   c2 |-> "OIL"],
              [k |-> "RO1", c1 |-> "Bilal", c2 |-> "BRAKE"] >>
      [] t = "daily_cpus_reports" ->
           << [k |-> "RO1", c1 |-> ToString(m),
               c2 |-> IF m = 1 THEN "Late" ELSE NULL],
              [k |-> "RO2", c1 |-> ToString(m), c2 |-> "Grace"] >>
      [] t = "repeat_repairs" ->
           IF m = 1
           THEN << [k |-> "D1", c1 |-> ToString(80 + m), c2 |-> ToString(m)],
                   [k |-> "D2", c1 |-> ToString(90 + m), c2 |-> ToString(m)] >>
           ELSE << [k |-> "D2", c1 |-> ToString(90 + m), c2 |-> NULL],
                   [k |-> "D1", c1 |-> NULL, c2 |-> ToString(m)] >>

Keys(t) == IF t = "repeat_repairs" THEN {"D1", "D2"} ELSE {"RO1", "RO2"}

\* The row of key k in file version (t, m), if it has exactly one.
RowOf(t, m, k) ==
    LET rows == FileRows(t, m)
    IN  rows[CHOOSE i \in 1..Len(rows) : rows[i].k = k]

HasKey(t, m, k) == \E i \in 1..Len(FileRows(t, m)) : FileRows(t, m)[i].k = k

\* ------------------------------------------------------------------ state
VARIABLES
    pc,        \* per slot: "idle" | "loading" (transaction open) | "logged"
    req,       \* per slot: the file of the request in flight
    txn,       \* per slot: [pos, ins, upd] of the open transaction
    resp,      \* per slot: the response of the slot's last request
    tbl,       \* per table: the physical rows
    nextId,    \* per table: the AUTO_INCREMENT counter
    ilog,      \* the physical rows of ingestion_log
    logUnique, \* whether ingestion_log has a unique key on the triple
    target,    \* the table the requests of this behaviour load
    started,   \* requests submitted so far
    ncommit,   \* transactions committed so far
    shadow,    \* per table: the committed batches applied one after another
    commits,   \* per triple: times a batch was committed
    overlap,   \* per triple: two requests passed shouldProcess together
    racing     \* two transactions have been open at the same time

ingestVars == << pc, req, txn, resp, tbl, nextId, ilog, logUnique, target,
                 started, ncommit, shadow, commits, overlap, racing >>

\* The upload path: the daily-report page, the Next.js route, FastAPI.
VARIABLES
    submits,     \* calls of handleSubmit so far
    submitting,  \* page state: a submission is in progress
    serverError, \* page state: the error shown
    successMsg,  \* page state: the success message shown
    error1,      \* page state: the validation error of the first file field
    timer,       \* handleSubmit's 45 s timer: "off" | "armed"
    conn,        \* the browser's request to /api/upload-reports
    route,       \* the POST handler of the route: [state, id, timer]
    up,          \* the route's request to FastAPI /upload-reports
    backend,     \* FastAPI's ingestion transaction: [state, id, written]
    store,       \* uploads whose batch is committed
    logged,      \* uploads whose ingestion-log entry is committed
    cancelled,   \* uploads whose browser abort fired with the batch in flight
    error2,      \* page state: the validation error of the second file field
    error3,      \* page state: the validation error of the third file field
    file1Name,   \* page state: the name shown for the technician report
    file2Name,   \* page state: the name shown for the daily report
    file3Name,   \* page state: the name shown for the rework report
    inputRef1,   \* inputRef1.current.files[0]: the technician report
    inputRef2,   \* inputRef2.current.files[0]: the daily report
    inputRef3,   \* inputRef3.current.files[0]: the rework report
    formData,    \* the body of the request handleSubmit waits for
    picks        \* calls of onPickFile so far

\* The file fields of the upload page.
fileVars == << error2, error3, file1Name, file2Name, file3Name, inputRef1,
               inputRef2, inputRef3, formData, picks >>

uploadVars == << submits, submitting, serverError, successMsg, error1, timer,
                 conn, route, up, backend, store, logged, cancelled,
                 fileVars >>

\* The Row Normalizer and the response of one ingestion call.
VARIABLES
    nkind,     \* the entity kind of the batch of the last call
    ninput,    \* the raw rows of the batch
    nresults,  \* the results of the Row Normalizer so far
    nstored,   \* the rows the call stored
    nresp,     \* the response of the last call
    nbusy      \* an ingestion call is running

normVars == << nkind, ninput, nresults, nstored, nresp, nbusy >>

\* The Metrics Engine over the job rows, and the technician-efficiency page.
VARIABLES
    jobs,           \* the job rows of the store, a bag of rows
    serving,        \* the batch is loaded and the queries are served
    overview,       \* the last response of GET /jobs-overview
    perf,           \* the last response of GET /technician-performance
    overviewRows,   \* page state: the rows of the overview
    overviewError,  \* page state: the error of the overview
    techPerformance, \* page state: the performance of the selected technician
    perfError,      \* page state: the error of the performance report
    totalJobs,      \* page state: the number of jobs, a list of at most one
    totalTechs,     \* page state: the number of technicians, likewise
    overviewCache   \* localStorage[OVERVIEW_CACHE_KEY], a list of at most one

overviewPageVars == << totalJobs, totalTechs, overviewCache >>

metricVars == << jobs, serving, overview, perf, overviewRows, overviewError,
                 techPerformance, perfError, overviewPageVars >>

\* The rework rate of the Metrics Engine, and the service-quality page.
VARIABLES
    vehicles,       \* the delivered vehicles of the store, a bag of rows
    reworkServing,  \* the batch is loaded and the queries are served
    rework,         \* the last response of GET /rework-rate
    reworkRate,     \* page state: the rework rate
    ftfr,           \* page state: the first-time-fix rate
    totalReworks,   \* page state: the number of reworks
    months,         \* page state: the labels of the monthly chart
    monthlyCounts,  \* page state: the counts of the monthly chart
    kpiError,       \* page state: the error of the KPI cards
    reworkCache     \* localStorage[REWORK_RATE_CACHE_KEY], a list of at most one

reworkVars == << vehicles, reworkServing, rework, reworkRate, ftfr,
                 totalReworks, months, monthlyCounts, kpiError, reworkCache >>

\* The date helpers of the dashboard pages.
VARIABLES
    dateText,   \* a YYYY-MM-DD string, as a list of characters
    dateValue,  \* the Date parsed from it
    dateBack,   \* the string formatted from the Date
    dateAgain   \* the Date parsed from the formatted string

dateVars == << dateText, dateValue, dateBack, dateAgain >>

\* The sign-in page, the cookies of the browser and the proxy.
VARIABLES
    now,           \* the clock, in seconds
    half,          \* the clock below the second: 0, or 1 past the half second
    ticks,         \* the steps of the clock so far
    auth_session,  \* cookie auth_session
    auth_exp,      \* cookie auth_exp
    auth_banned,   \* cookie auth_banned
    signInError,   \* the error of the sign-in page
    lastReq,       \* the last request the proxy saw
    lastRes,       \* the answer of the proxy to it
    firstExp       \* the expiry set by the first successful sign-in, 0 if none

authVars == << now, half, ticks, auth_session, auth_exp, auth_banned,
               signInError, lastReq, lastRes, firstExp >>

\* The API routes of the dashboard.
VARIABLES
    apiReq,  \* the last request to a route, and what its upstream fetch did
    apiRes   \* the response of the route to it

apiVars == << apiReq, apiRes >>

\* The RO explorer and its requests to /api/job-records.
VARIABLES
    page,          \* page state: the page of the table
    applied,       \* page state: the applied filters
    records,       \* page state: the rows of the table
    noOfRows,      \* page state: the number of rows of the page
    totalRecords,  \* page state: the number of records of the query
    loading,       \* page state: a request is being made
    error,         \* page state: the error shown
    inflight,      \* the calls of fetchData that have not returned
    fetches        \* the calls of fetchData so far

roVars == << page, applied, records, noOfRows, totalRecords, loading, error,
             inflight, fetches >>

\* The variables each part of the system leaves alone.
nonIngestVars ==
    << uploadVars, normVars, metricVars, reworkVars, dateVars, authVars,
       apiVars, roVars >>
nonUploadVars ==
    << ingestVars, normVars, metricVars, reworkVars, dateVars, authVars,
       apiVars, roVars >>
nonNormVars ==
    << ingestVars, uploadVars, metricVars, reworkVars, dateVars, authVars,
       apiVars, roVars >>
nonMetricVars ==
    << ingestVars, uploadVars, normVars, reworkVars, dateVars, authVars,
       apiVars, roVars >>
nonReworkVars ==
    << ingestVars, uploadVars, normVars, metricVars, dateVars, authVars,
       apiVars, roVars >>
nonDateVars ==
    << ingestVars, uploadVars, normVars, metricVars, reworkVars, authVars,
       apiVars, roVars >>
nonAuthVars ==
    << ingestVars, uploadVars, normVars, metricVars, reworkVars, dateVars,
       apiVars, roVars >>
nonApiVars ==
    << ingestVars, uploadVars, normVars, metricVars, reworkVars, dateVars,
       authVars, roVars >>
nonRoVars ==
    << ingestVars, uploadVars, normVars, metricVars, reworkVars, dateVars,
       authVars, apiVars >>

vars == << ingestVars, uploadVars, normVars, metricVars, reworkVars,
           dateVars, authVars, apiVars, roVars >>

Triples == Tables \X Mtimes

NoReq == [filename |-> "", mtime |-> 0, table_name |-> ""]
NoTxn == [pos |-> 0, ins |-> 0, upd |-> 0]
NoResp == [status |-> "none", mtime |-> 0, rows_inserted |-> 0,
           skipped |-> FALSE]

\* ------------------------------------------------- storage: transactions
\* A physical row is [id, k, c1, c2, src, owner, undo]: owner is Nobody for
\* a committed row and the slot of the open transaction that wrote it
\* otherwise; undo is << >> or holds the committed version the transaction
\* overwrote. src is the version (mtime) of the file that wrote the row.
Nobody == "none"

\* All data loads use database transactions: a row written by r is r's
\* until r commits.
AutocommitOwner(r) == Nobody
TxnOwner(r) == r

\* The committed rows of a set of physical rows: what a reader sees.
Committed(T) ==
    { [id |-> x.id, k |-> x.k, c1 |-> x.c1, c2 |-> x.c2, src |-> x.src] :
        x \in { y \in T : y.owner = Nobody } }
    \cup
    { [id |-> x.id, k |-> x.k, c1 |-> x.undo[1].c1, c2 |-> x.undo[1].c2,
       src |-> x.undo[1].src] :
        x \in { y \in T : y.owner # Nobody /\ y.undo # << >> } }

Visible(t) == Committed(tbl[t])

\* Every row a file version can write to table t, without the surrogate id.
AllRows(t) ==
    { [k |-> FileRows(t, m)[i].k, c1 |-> FileRows(t, m)[i].c1,
       c2 |-> FileRows(t, m)[i].c2, src |-> m] :
        m \in Mtimes, i \in 1..2 }

\* A reader's rows counted by content: the table as a bag.
Bag(t, S) ==
    [ a \in AllRows(t) |->
        Cardinality({ x \in S : x.k = a.k /\ x.c1 = a.c1 /\ x.c2 = a.c2
                                 /\ x.src = a.src }) ]

\* Row-level locking on the upsert key: r may write key k unless another
\* open transaction holds a row of that key.
LockFree(T, t, k, r) == TRUE
CanLock(T, t, k, r) ==
    UniqueOnNaturalKey(t) => \A x \in T : x.k = k => x.owner \in {Nobody, r}

\* Last write wins: the column takes the new row's value, null included.
CoalesceValue(old, new) == IF new = NULL THEN old ELSE new
UpsertValue(old, new) == new

Exists(T, t, k) == UniqueOnNaturalKey(t) /\ \E x \in T : x.k = k

\* INSERT ... ON DUPLICATE KEY UPDATE of one row by transaction r.
WriteRow(T, t, row, src, id, r) ==
    IF Exists(T, t, row.k)
    THEN { IF x.k = row.k
           THEN [x EXCEPT !.c1 = UpsertValue(x.c1, row.c1),
                          !.c2 = UpsertValue(x.c2, row.c2),
                          !.src = src,
                          !.owner = TxnOwner(r),
                          !.undo = IF TxnOwner(r) = Nobody THEN << >>
                                   ELSE IF x.owner = Nobody
                                        THEN << [c1 |-> x.c1, c2 |-> x.c2,
                                                 src |-> x.src] >>
                                        ELSE x.undo]
           ELSE x : x \in T }
    ELSE T \cup { [id |-> id, k |-> row.k, c1 |-> row.c1, c2 |-> row.c2,
                   src |-> src, owner |-> TxnOwner(r), undo |-> << >>] }

\* COMMIT: r's rows become committed.
CommitRows(T, r) ==
    { IF x.owner = r THEN [x EXCEPT !.owner = Nobody, !.undo = << >>] ELSE x :
        x \in T }

\* ROLLBACK: r's inserts are removed and r's updates undone.
KeepPartialRows(T, r) == CommitRows(T, r)
RollbackRows(T, r) ==
    { IF x.owner = r
      THEN [x EXCEPT !.c1 = x.undo[1].c1, !.c2 = x.undo[1].c2,
                     !.src = x.undo[1].src, !.owner = Nobody, !.undo = << >>]
      ELSE x :
        x \in { y \in T : ~(y.owner = r /\ y.undo = << >>) } }

\* --------------------------------------------------------- ingestion_log
\* A log row is [id, filename, mtime, table_name, rows_inserted, owner,
\* cseq]: cseq is the position of its transaction among the commits, 0
\* while the transaction is open.
SameTriple(e, f) ==
    e.filename = f.filename /\ e.mtime = f.mtime /\ e.table_name = f.table_name

VisibleLog == { e \in ilog : e.owner = Nobody }

\* Ingestion Log: shouldProcess(filename, modification_time, target_table).
AlwaysProcess(f) == TRUE
shouldProcess(f) == ~ \E e \in VisibleLog : SameTriple(e, f)

\* The rows affected, as the storage layer reports them: inserted + updated.
InsertedOnly(ins, upd) == ins
RowsAffected(ins, upd) == ins + upd

\* The entry record(...) writes for request q of slot r.
LogEntryNoMtime(f, n, id, r) ==
    [id |-> id, filename |-> f.filename, mtime |-> 0,
     table_name |-> f.table_name, rows_inserted |-> n, owner |-> r,
     cseq |-> 0]
LogEntry(f, n, id, r) ==
    [id |-> id, filename |-> f.filename, mtime |-> f.mtime,
     table_name |-> f.table_name, rows_inserted |-> n, owner |-> r,
     cseq |-> 0]

\* The log write joins the loader's transaction: it commits with the data.
LogAutocommitOwner(r) == Nobody
LogTxnOwner(r) == r

CommitLog(L, r, c) ==
    { IF e.owner = r THEN [e EXCEPT !.owner = Nobody, !.cseq = c] ELSE e :
        e \in L }

RollbackLog(L, r) == { e \in L : e.owner # r }

\* ------------------------------------------- the serial (abstract) store
\* One committed batch applied to the bag B of table t, row by row: a row
\* whose key is unique in t replaces the rows of that key, any other row
\* is added.
ApplyRow(B, t, row, src) ==
    [ a \in AllRows(t) |->
        IF a.k = row.k /\ a.c1 = row.c1 /\ a.c2 = row.c2 /\ a.src = src
        THEN IF UniqueOnNaturalKey(t) THEN 1 ELSE B[a] + 1
        ELSE IF UniqueOnNaturalKey(t) /\ a.k = row.k THEN 0 ELSE B[a] ]

RECURSIVE ApplyBatch(_, _, _, _, _)
ApplyBatch(B, t, rows, src, i) ==
    IF i > Len(rows) THEN B
    ELSE ApplyBatch(ApplyRow(B, t, rows[i], src), t, rows, src, i + 1)

\* ------------------------------------------------- the ingestion pipeline
File(t, m) == [filename |-> FileName(t), mtime |-> m, table_name |-> t]

Rows(r) == FileRows(req[r].table_name, req[r].mtime)

TripleOf(r) == << req[r].table_name, req[r].mtime >>

IngestInit ==
    /\ pc = [r \in Slots |-> "idle"]
    /\ req = [r \in Slots |-> NoReq]
    /\ txn = [r \in Slots |-> NoTxn]
    /\ resp = [r \in Slots |-> NoResp]
    /\ tbl = [t \in Tables |-> {}]
    /\ nextId = [t \in Tables |-> 1]
    /\ ilog = {}
    /\ logUnique \in BOOLEAN
    /\ target \in Tables
    /\ started = 0
    /\ ncommit = 0
    /\ shadow = [t \in Tables |-> [a \in AllRows(t) |-> 0]]
    /\ commits = [tr \in Triples |-> 0]
    /\ overlap = [tr \in Triples |-> FALSE]
    /\ racing = FALSE

\* An ingestion request for a file the log already holds: the Upsert Loader
\* is not invoked and the caller is told rows_inserted = 0, skipped = true.
SkipRequest(r, t, m) ==
    /\ pc[r] = "idle"
    /\ started < MaxRequests
    /\ ~ shouldProcess(File(t, m))
    /\ started' = started + 1
    /\ resp' = [resp EXCEPT ![r] =
                  [status |-> "skipped", mtime |-> m, rows_inserted |-> 0,
                   skipped |-> TRUE]]
    /\ UNCHANGED << pc, req, txn, tbl, nextId, ilog, logUnique, target, ncommit,
                    shadow, commits, overlap, racing,
                    nonIngestVars >>

\* An ingestion request that passes the idempotency check: the Upsert
\* Loader is invoked and opens its transaction.
StartRequest(r, t, m) ==
    /\ pc[r] = "idle"
    /\ started < MaxRequests
    /\ shouldProcess(File(t, m))
    /\ started' = started + 1
    /\ pc' = [pc EXCEPT ![r] = "loading"]
    /\ req' = [req EXCEPT ![r] = File(t, m)]
    /\ txn' = [txn EXCEPT ![r] = NoTxn]
    /\ resp' = [resp EXCEPT ![r] =
                  [status |-> "pending", mtime |-> m, rows_inserted |-> 0,
                   skipped |-> FALSE]]
    /\ racing' = (racing \/ \E o \in Slots \ {r} : pc[o] # "idle")
    /\ overlap' = [overlap EXCEPT ![<<t, m>>] =
                     @ \/ \E o \in Slots \ {r} :
                            pc[o] # "idle" /\ TripleOf(o) = <<t, m>>]
    /\ UNCHANGED << tbl, nextId, ilog, logUnique, target, ncommit, shadow,
                    commits,
                    nonIngestVars >>

\* The loader writes the next row of the batch inside its transaction.
LoadRow(r) ==
    /\ pc[r] = "loading"
    /\ txn[r].pos < Len(Rows(r))
    /\ LET t   == req[r].table_name
           row == Rows(r)[txn[r].pos + 1]
           upd == Exists(tbl[t], t, row.k)
           id  == IF AutoIncrementId(t) THEN nextId[t] ELSE 0
       IN  /\ CanLock(tbl[t], t, row.k, r)
           /\ tbl' = [tbl EXCEPT ![t] = WriteRow(@, t, row, req[r].mtime, id, r)]
           /\ nextId' = [nextId EXCEPT ![t] =
                           IF AutoIncrementId(t) /\ ~upd THEN @ + 1 ELSE @]
           /\ txn' = [txn EXCEPT ![r] =
                        [pos |-> @.pos + 1,
                         ins |-> IF upd THEN @.ins ELSE @.ins + 1,
                         upd |-> IF upd THEN @.upd + 1 ELSE @.upd]]
    /\ UNCHANGED << pc, req, resp, ilog, logUnique, target, started, ncommit,
                    shadow, commits, overlap, racing,
                    nonIngestVars >>

\* The transaction of r ends in ROLLBACK and the request fails.
Abort(r, status) ==
    /\ tbl' = [tbl EXCEPT ![req[r].table_name] = RollbackRows(@, r)]
    /\ ilog' = RollbackLog(ilog, r)
    /\ pc' = [pc EXCEPT ![r] = "idle"]
    /\ req' = [req EXCEPT ![r] = NoReq]
    /\ txn' = [txn EXCEPT ![r] = NoTxn]
    /\ resp' = [resp EXCEPT ![r] =
                  [status |-> status, mtime |-> req[r].mtime,
                   rows_inserted |-> 0, skipped |-> FALSE]]
    /\ UNCHANGED << nextId, logUnique, target, started, ncommit, shadow,
                    commits, overlap, racing,
                    nonIngestVars >>

\* The storage layer rejects the next row (a type or constraint check, a
\* lock wait that times out): the whole batch is rolled back.
RowFails(r) ==
    /\ pc[r] = "loading"
    /\ txn[r].pos < Len(Rows(r))
    /\ Abort(r, "failed")

\* record(...): the log entry of the batch, written in the transaction.
RecordLog(r) ==
    /\ pc[r] = "loading"
    /\ txn[r].pos = Len(Rows(r))
    /\ ~ (logUnique /\ \E e \in ilog : SameTriple(e, req[r]))
    /\ ilog' = ilog \cup
                 { LogEntry(req[r], RowsAffected(txn[r].ins, txn[r].upd),
                            Cardinality(ilog) + 1, LogTxnOwner(r)) }
    /\ pc' = [pc EXCEPT ![r] = "logged"]
    /\ UNCHANGED << req, txn, resp, tbl, nextId, logUnique, target, started,
                    ncommit, shadow, commits, overlap, racing,
                    nonIngestVars >>

\* record(...) on a log table with a unique key, when another request has
\* committed the same triple meanwhile: "Duplicate entry" and rollback.
RecordLogDuplicate(r) ==
    /\ pc[r] = "loading"
    /\ txn[r].pos = Len(Rows(r))
    /\ logUnique
    /\ \E e \in VisibleLog : SameTriple(e, req[r])
    /\ Abort(r, "failed")

\* COMMIT: the rows and the log entry of the batch become visible together.
Commit(r) ==
    /\ pc[r] = "logged"
    /\ LET t == req[r].table_name
       IN  /\ tbl' = [tbl EXCEPT ![t] = CommitRows(@, r)]
           /\ shadow' = [shadow EXCEPT ![t] =
                           ApplyBatch(@, t, Rows(r), req[r].mtime, 1)]
    /\ ilog' = CommitLog(ilog, r, ncommit + 1)
    /\ ncommit' = ncommit + 1
    /\ commits' = [commits EXCEPT ![TripleOf(r)] = @ + 1]
    /\ pc' = [pc EXCEPT ![r] = "idle"]
    /\ req' = [req EXCEPT ![r] = NoReq]
    /\ txn' = [txn EXCEPT ![r] = NoTxn]
    /\ resp' = [resp EXCEPT ![r] =
                  [status |-> "ok", mtime |-> req[r].mtime,
                   rows_inserted |-> RowsAffected(txn[r].ins, txn[r].upd),
                   skipped |-> FALSE]]
    /\ UNCHANGED << nextId, logUnique, target, started, overlap, racing,
                    nonIngestVars >>

IngestNext ==
    \E r \in Slots :
        \/ \E m \in Mtimes : SkipRequest(r, target, m)
        \/ \E m \in Mtimes : StartRequest(r, target, m)
        \/ LoadRow(r)
        \/ RowFails(r)
        \/ RecordLog(r)
        \/ RecordLogDuplicate(r)
        \/ Commit(r)

\* ------------------------------------------------------- the upload path
\* Calls of handleSubmit in one behaviour.
MaxSubmits == 2
\* Rows of the batch an upload ingests.
BatchRows == 2

\* Calls of onPickFile in one behaviour.
MaxPicks == 3

MAX_MB == 10
MAX_BYTES == MAX_MB * 1024 * 1024

\* No file: the input is empty, or the user closed the picker.
NoFile == [name |-> << >>, type |-> "", size |-> 0]

\* The files the user can pick: name, MIME type and size in bytes.
Files ==
    { [name |-> << "a", ".", "p", "d", "f" >>, type |-> "application/pdf",
       size |-> 1],
      [name |-> << "a", ".", "p", "d", "f" >>, type |-> "application/pdf",
       size |-> 2],
      [name |-> << "b", ".", "P", "D", "F" >>, type |-> "",
       size |-> MAX_BYTES],
      [name |-> << "n", ".", "t", "x", "t" >>, type |-> "text/plain",
       size |-> 1],
      [name |-> << "e", ".", "p", "d", "f" >>, type |-> "application/pdf",
       size |-> 0],
      [name |-> << "x", ".", "p", "d", "f" >>, type |-> "application/pdf",
       size |-> MAX_BYTES + 1] }

UpperChars == << "A", "B", "C", "D", "E", "F", "P", "T", "X" >>
LowerChars == << "a", "b", "c", "d", "e", "f", "p", "t", "x" >>

\* str.toLowerCase().
toLowerCase(str) ==
    [i \in DOMAIN str |->
        IF \E j \in DOMAIN UpperChars : UpperChars[j] = str[i]
        THEN LowerChars[CHOOSE j \in DOMAIN UpperChars : UpperChars[j] = str[i]]
        ELSE str[i]]

\* str.endsWith(suffix).
endsWith(str, suffix) ==
    /\ Len(str) >= Len(suffix)
    /\ SubSeq(str, Len(str) - Len(suffix) + 1, Len(str)) = suffix

\* validatePdf without the comparison with the files of the other fields.
validatePdfAlone(file, label, otherFiles) ==
    LET lower == toLowerCase(file.name)
        isPdf == \/ file.type = "application/pdf"
                 \/ endsWith(lower, << ".", "p", "d", "f" >>)
    IN  IF ~ isPdf
        THEN label \o " validation failed: Only PDF files are allowed"
        ELSE IF file.size = 0
        THEN label \o " validation failed: File is empty"
        ELSE IF file.size > MAX_BYTES
        THEN label \o " size validation failed: File size exceeds maximum allowed size (10MB)"
        ELSE NULL

\* validatePdf(file, label, otherFiles): the error message, or NULL. The
\* message of a file that is too large also gives its size in MB, which is
\* left out here.
validatePdf(file, label, otherFiles) ==
    LET lower == toLowerCase(file.name)
        isPdf == \/ file.type = "application/pdf"
                 \/ endsWith(lower, << ".", "p", "d", "f" >>)
    IN  IF \E i \in DOMAIN otherFiles :
              /\ otherFiles[i] # NoFile
              /\ otherFiles[i].name = file.name
              /\ otherFiles[i].size = file.size
        THEN label \o " validation failed: This file has already been selected for another report."
        ELSE IF ~ isPdf
        THEN label \o " validation failed: Only PDF files are allowed"
        ELSE IF file.size = 0
        THEN label \o " validation failed: File is empty"
        ELSE IF file.size > MAX_BYTES
        THEN label \o " size validation failed: File size exceeds maximum allowed size (10MB)"
        ELSE NULL

\* new FormData(), before any file is appended.
NoFormData ==
    [technicianreport |-> NoFile, dailyreport |-> NoFile,
     reworkreport |-> NoFile]

\* err.message of the TypeError a failed fetch rejects with.
FetchFailedMsg == "Failed to fetch"
TimedOutMsg == "Request timed out. Please try again."
SubmittedMsg == "PDF's Submitted successfully."
ProxyTimeoutMsg == "Proxy timeout contacting FastAPI"
ProxyErrorMsg == "Proxy error"
BackendErrorMsg == "Database sync failed"

\* A request in flight between two tiers: state is "none", "open" (sent),
\* "taken" (being handled), "answered" (response ready) or "aborted".
NoConn == [state |-> "none", id |-> 0, status |-> 0, detail |-> ""]
NoRoute == [state |-> "idle", id |-> 0, timer |-> "off"]
NoBackend == [state |-> "idle", id |-> 0, written |-> 0]

UploadInit ==
    /\ submits = 0
    /\ submitting = FALSE
    /\ serverError = ""
    /\ successMsg = ""
    /\ error1 = ""
    /\ timer = "off"
    /\ conn = NoConn
    /\ route = NoRoute
    /\ up = NoConn
    /\ backend = NoBackend
    /\ store = {}
    /\ logged = {}
    /\ cancelled = {}
    /\ error2 = ""
    /\ error3 = ""
    /\ file1Name = << >>
    /\ file2Name = << >>
    /\ file3Name = << >>
    /\ inputRef1 = NoFile
    /\ inputRef2 = NoFile
    /\ inputRef3 = NoFile
    /\ formData = NoFormData
    /\ picks = 0

\* The ingestion transaction of upload id is open.
InFlight(id) == backend.id = id /\ backend.state \in {"open", "logged"}

\* onPickFile(e, fileNum), with f the file the user picked in the input, or
\* NoFile. The buttons that open the pickers are disabled while submitting.
\* Picks that no call of handleSubmit can follow are left out.
onPickFile(f, fileNum) ==
    LET label == IF fileNum = 1 THEN "Technician Report"
                 ELSE IF fileNum = 2 THEN "Daily Report"
                 ELSE "Rework Report"
        otherFiles ==
            (IF fileNum # 1 THEN << inputRef1 >> ELSE << >>)
            \o (IF fileNum # 2 THEN << inputRef2 >> ELSE << >>)
            \o (IF fileNum # 3 THEN << inputRef3 >> ELSE << >>)
        validationError ==
            IF f = NoFile THEN NULL ELSE validatePdf(f, label, otherFiles)
        shownError == IF validationError # NULL THEN validationError ELSE ""
        shownName == IF validationError # NULL THEN << >> ELSE f.name
        value == IF validationError # NULL THEN NoFile ELSE f
    IN  /\ ~ submitting
        /\ submits < MaxSubmits
        /\ picks < MaxPicks
        /\ picks' = picks + 1
        /\ CASE fileNum = 1 ->
                  /\ error1' = shownError
                  /\ file1Name' = shownName
                  /\ inputRef1' = value
                  /\ UNCHANGED << error2, error3, file2Name, file3Name,
                                  inputRef2, inputRef3 >>
             [] fileNum = 2 ->
                  /\ error2' = shownError
                  /\ file2Name' = shownName
                  /\ inputRef2' = value
                  /\ UNCHANGED << error1, error3, file1Name, file3Name,
                                  inputRef1, inputRef3 >>
             [] fileNum = 3 ->
                  /\ error3' = shownError
                  /\ file3Name' = shownName
                  /\ inputRef3' = value
                  /\ UNCHANGED << error1, error2, file1Name, file2Name,
                                  inputRef1, inputRef2 >>
        /\ UNCHANGED << submits, submitting, serverError, successMsg, timer,
                        conn, route, up, backend, store, logged, cancelled,
                        formData, nonUploadVars >>

\* handleSubmit, up to its await of fetch(UPLOAD_ENDPOINT, {signal}). The
\* button that calls it is disabled while submitting; its other conditions
\* (a name shown for both reports, no error shown) are not relied on.
handleSubmit ==
    LET f1 == inputRef1
        f2 == inputRef2
        f3 == inputRef3
        v1 == validatePdf(f1, "Technician Report", << f2 >>)
        v2 == validatePdf(f2, "Daily Report", << f1 >>)
    IN  /\ ~ submitting
        /\ submits < MaxSubmits
        /\ submits' = submits + 1
        /\ serverError' = ""
        /\ successMsg' = ""
        /\ IF f1 = NoFile \/ f2 = NoFile
           THEN UNCHANGED << submitting, error1, error2, timer, conn,
                            formData >>
           ELSE IF v1 # NULL \/ v2 # NULL
           THEN /\ error1' = IF v1 # NULL THEN v1 ELSE error1
                /\ error2' = IF v2 # NULL THEN v2 ELSE error2
                /\ UNCHANGED << submitting, timer, conn, formData >>
           ELSE /\ formData' = [technicianreport |-> f1, dailyreport |-> f2,
                                reworkreport |-> f3]
                /\ submitting' = TRUE
                /\ timer' = "armed"
                /\ conn' = [NoConn EXCEPT !.state = "open",
                                          !.id = submits + 1]
                /\ UNCHANGED << error1, error2 >>
        /\ UNCHANGED << route, up, backend, store, logged, cancelled, error3,
                        file1Name, file2Name, file3Name, inputRef1, inputRef2,
                        inputRef3, picks, nonUploadVars >>

\* The finally block of handleSubmit, without its clearTimeout.
FinallyKeepsTimer ==
    /\ submitting' = FALSE
    /\ UNCHANGED timer

\* The finally block of handleSubmit.
Finally ==
    /\ timer' = "off"
    /\ submitting' = FALSE

\* The 45 s timer of handleSubmit fires: ac.abort() rejects the pending
\* fetch with AbortError; catch and finally run.
BrowserTimeout ==
    /\ submitting
    /\ timer = "armed"
    /\ serverError' = TimedOutMsg
    /\ Finally
    /\ conn' = [conn EXCEPT !.state = "aborted"]
    /\ formData' = NoFormData
    /\ cancelled' = IF InFlight(conn.id) THEN cancelled \cup {conn.id}
                    ELSE cancelled
    /\ UNCHANGED << submits, successMsg, error1, error2, error3, file1Name,
                    file2Name, file3Name, inputRef1, inputRef2, inputRef3,
                    picks, route, up, backend, store, logged, nonUploadVars >>

\* The fetch of handleSubmit rejects with an error other than AbortError,
\* because the connection failed: catch and finally run.
BrowserFetchFails ==
    /\ submitting
    /\ conn.state \in {"open", "taken"}
    /\ serverError' = FetchFailedMsg
    /\ Finally
    /\ conn' = [conn EXCEPT !.state = "aborted"]
    /\ formData' = NoFormData
    /\ UNCHANGED << submits, successMsg, error1, error2, error3, file1Name,
                    file2Name, file3Name, inputRef1, inputRef2, inputRef3,
                    picks, route, up, backend, store, logged, cancelled,
                    nonUploadVars >>

\* handleSubmit after the fetch resolved: res.ok or not, then finally.
BrowserResponse ==
    /\ submitting
    /\ conn.state = "answered"
    /\ IF conn.status = 200
       THEN /\ successMsg' = SubmittedMsg
            /\ inputRef1' = NoFile
            /\ inputRef2' = NoFile
            /\ inputRef3' = NoFile
            /\ file1Name' = << >>
            /\ file2Name' = << >>
            /\ file3Name' = << >>
            /\ UNCHANGED serverError
       ELSE /\ serverError' = conn.detail
            /\ UNCHANGED << successMsg, inputRef1, inputRef2, inputRef3,
                            file1Name, file2Name, file3Name >>
    /\ Finally
    /\ conn' = NoConn
    /\ formData' = NoFormData
    /\ UNCHANGED << submits, error1, error2, error3, picks, route, up,
                    backend, store, logged, cancelled, nonUploadVars >>

\* The response of the route to request id reaches the browser only while
\* the browser still waits for it.
Respond(id, status, detail) ==
    IF conn.id = id /\ conn.state = "taken"
    THEN [conn EXCEPT !.state = "answered", !.status = status,
                      !.detail = detail]
    ELSE conn

\* POST of route.ts starts: its own AbortController and 45 s timer.
RouteReceive ==
    /\ route.state = "idle"
    /\ conn.state = "open"
    /\ route' = [state |-> "reading", id |-> conn.id, timer |-> "armed"]
    /\ conn' = [conn EXCEPT !.state = "taken"]
    /\ UNCHANGED << submits, submitting, serverError, successMsg, error1,
                    timer, up, backend, store, logged, cancelled,
                    fileVars, nonUploadVars >>

\* req.formData() rejects because the browser dropped the request: 502.
RouteReadFails ==
    /\ route.state = "reading"
    /\ ~ (conn.id = route.id /\ conn.state = "taken")
    /\ route' = NoRoute
    /\ UNCHANGED << submits, submitting, serverError, successMsg, error1,
                    timer, conn, up, backend, store, logged, cancelled,
                    fileVars, nonUploadVars >>

\* fetch(target, {signal: ac.signal}): sent upstream, or rejected at once
\* when the route's timer has fired already.
RouteFetch ==
    /\ route.state = "reading"
    /\ up.state = "none"
    /\ IF route.timer = "fired"
       THEN /\ route' = NoRoute
            /\ conn' = Respond(route.id, 502, ProxyTimeoutMsg)
            /\ UNCHANGED up
       ELSE /\ route' = [route EXCEPT !.state = "fetching"]
            /\ up' = [NoConn EXCEPT !.state = "open", !.id = route.id]
            /\ UNCHANGED conn
    /\ UNCHANGED << submits, submitting, serverError, successMsg, error1,
                    timer, backend, store, logged, cancelled,
                    fileVars, nonUploadVars >>

\* The route's 45 s timer fires: ac.abort(); a pending upstream fetch is
\* aborted and the catch answers 502.
RouteTimeout ==
    /\ route.timer = "armed"
    /\ IF route.state = "fetching"
       THEN /\ route' = NoRoute
            /\ conn' = Respond(route.id, 502, ProxyTimeoutMsg)
            /\ up' = IF InFlight(up.id)
                     THEN [up EXCEPT !.state = "aborted"]
                     ELSE NoConn
       ELSE /\ route' = [route EXCEPT !.timer = "fired"]
            /\ UNCHANGED << conn, up >>
    /\ UNCHANGED << submits, submitting, serverError, successMsg, error1,
                    timer, backend, store, logged, cancelled,
                    fileVars, nonUploadVars >>

\* The upstream fetch resolved: clearTimeout and passThrough(upstream).
RoutePassThrough ==
    /\ route.state = "fetching"
    /\ up.state = "answered"
    /\ conn' = Respond(route.id, up.status, up.detail)
    /\ route' = NoRoute
    /\ up' = NoConn
    /\ UNCHANGED << submits, submitting, serverError, successMsg, error1,
                    timer, backend, store, logged, cancelled,
                    fileVars, nonUploadVars >>

\* The answer of FastAPI to upload id, unless the route gave up on it.
Answer(id, status, detail) ==
    IF up.id = id /\ up.state = "taken"
    THEN [up EXCEPT !.state = "answered", !.status = status,
                    !.detail = detail]
    ELSE NoConn

\* FastAPI /upload-reports: the ingestion transaction of the upload opens.
BackendBegin ==
    /\ backend.state = "idle"
    /\ up.state = "open"
    /\ backend' = [state |-> "open", id |-> up.id, written |-> 0]
    /\ up' = [up EXCEPT !.state = "taken"]
    /\ UNCHANGED << submits, submitting, serverError, successMsg, error1,
                    timer, conn, route, store, logged, cancelled,
                    fileVars, nonUploadVars >>

\* The loader writes a row of the batch.
BackendWrite ==
    /\ backend.state = "open"
    /\ up.state # "aborted"
    /\ backend.written < BatchRows
    /\ backend' = [backend EXCEPT !.written = @ + 1]
    /\ UNCHANGED << submits, submitting, serverError, successMsg, error1,
                    timer, conn, route, up, store, logged, cancelled,
                    fileVars, nonUploadVars >>

\* A row fails at the storage layer: rollback, error response.
BackendRowFails ==
    /\ backend.state = "open"
    /\ up.state # "aborted"
    /\ backend.written < BatchRows
    /\ backend' = NoBackend
    /\ up' = Answer(backend.id, 500, BackendErrorMsg)
    /\ UNCHANGED << submits, submitting, serverError, successMsg, error1,
                    timer, conn, route, store, logged, cancelled,
                    fileVars, nonUploadVars >>

\* The log entry of the batch is written in the transaction.
BackendRecord ==
    /\ backend.state = "open"
    /\ up.state # "aborted"
    /\ backend.written = BatchRows
    /\ backend' = [backend EXCEPT !.state = "logged"]
    /\ UNCHANGED << submits, submitting, serverError, successMsg, error1,
                    timer, conn, route, up, store, logged, cancelled,
                    fileVars, nonUploadVars >>

\* COMMIT and the success response.
BackendCommit ==
    /\ backend.state = "logged"
    /\ up.state # "aborted"
    /\ store' = store \cup {backend.id}
    /\ logged' = logged \cup {backend.id}
    /\ backend' = NoBackend
    /\ up' = Answer(backend.id, 200, "")
    /\ UNCHANGED << submits, submitting, serverError, successMsg, error1,
                    timer, conn, route, cancelled, fileVars, nonUploadVars >>

\* The caller of FastAPI aborted its request while the transaction is
\* open: the cancellation signal rolls the transaction back.
BackendCancel ==
    /\ InFlight(up.id)
    /\ up.state = "aborted"
    /\ backend' = NoBackend
    /\ up' = NoConn
    /\ UNCHANGED << submits, submitting, serverError, successMsg, error1,
                    timer, conn, route, store, logged, cancelled,
                    fileVars, nonUploadVars >>

UploadNext ==
    \/ \E f \in Files \cup {NoFile} : \E fileNum \in 1..3 :
          onPickFile(f, fileNum)
    \/ handleSubmit
    \/ BrowserTimeout
    \/ BrowserFetchFails
    \/ BrowserResponse
    \/ RouteReceive
    \/ RouteReadFails
    \/ RouteFetch
    \/ RouteTimeout
    \/ RoutePassThrough
    \/ BackendBegin
    \/ BackendWrite
    \/ BackendRowFails
    \/ BackendRecord
    \/ BackendCommit
    \/ BackendCancel

\* ------------------------------------------------------ the Row Normalizer
\* Rows of one raw batch.
MaxBatch == 2

Kinds == {"RepairOrderRecord", "JobRecord", "RepeatRepairMetric"}

\* Raw cells as they come from a CSV: blank, well-formed or not.
RawRoNos == {"", "RO1"}
RawDates == {"", "04-Nov", "2025-11-04"}
RawAmounts == {"12.50", "abc"}

RawRows ==
    { [ro_no |-> k, date |-> d, amount |-> a] :
        k \in RawRoNos, d \in RawDates, a \in RawAmounts }

\* Raw batches of at most n rows.
RECURSIVE Batches(_)
Batches(n) ==
    IF n = 0 THEN { << >> }
    ELSE Batches(n - 1)
         \cup { Append(b, r) : b \in { c \in Batches(n - 1) : Len(c) = n - 1 },
                               r \in RawRows }

\* Date parsing: a cell in an accepted format gives a date, any other null.
ParseDate(s) == IF s = "2025-11-04" THEN s ELSE NULL

\* Numeric coercion: non-numeric or blank input yields null, not zero.
ParseAmount(s) == IF s = "12.50" THEN s ELSE NULL

\* The natural key of a raw row: ro_no of repair orders and job lines, the
\* parsed date of repeat-repair metrics; NULL when missing.
KeyOf(kind, raw) ==
    IF kind = "RepeatRepairMetric" THEN ParseDate(raw.date)
    ELSE IF raw.ro_no = "" THEN NULL ELSE raw.ro_no

Typed(kind, raw, i) ==
    [kind |-> "typed", index |-> i, key |-> KeyOf(kind, raw),
     date |-> ParseDate(raw.date), amount |-> ParseAmount(raw.amount),
     reason |-> ""]

\* The result of row i: a typed row, or a rejection with its reason.
NormalizeKeepsKeyless(kind, raw, i) == Typed(kind, raw, i)
Normalize(kind, raw, i) ==
    IF KeyOf(kind, raw) = NULL
    THEN [kind |-> "rejection", index |-> i, key |-> NULL, date |-> NULL,
          amount |-> NULL, reason |-> "MISSING_KEY"]
    ELSE Typed(kind, raw, i)

IsTyped(x) == x.kind = "typed"

\* process_database_files: {success, status, data: rows inserted, error}.
ProcessResponse(n) ==
    [success |-> TRUE,
     status |-> "All database operations completed successfully",
     data |-> n, error |-> NULL]

NoProcessResponse == [success |-> FALSE, status |-> "", data |-> 0,
                      error |-> NULL]

NormInit ==
    /\ nkind = "RepairOrderRecord"
    /\ ninput = << >>
    /\ nresults = << >>
    /\ nstored = << >>
    /\ nresp = NoProcessResponse
    /\ nbusy = FALSE

\* An ingestion call for a raw batch of one entity kind.
SubmitBatch(kind, rows) ==
    /\ ~ nbusy
    /\ nbusy' = TRUE
    /\ nkind' = kind
    /\ ninput' = rows
    /\ nresults' = << >>
    /\ nstored' = << >>
    /\ nresp' = NoProcessResponse
    /\ UNCHANGED nonNormVars

\* The Row Normalizer handles the next raw row.
NormalizeRow ==
    /\ nbusy
    /\ Len(nresults) < Len(ninput)
    /\ LET i == Len(nresults) + 1
       IN  nresults' = Append(nresults, Normalize(nkind, ninput[i], i))
    /\ UNCHANGED << nkind, ninput, nstored, nresp, nbusy, nonNormVars >>

\* The typed rows are loaded and the call answers with the rows inserted.
LoadBatch ==
    /\ nbusy
    /\ Len(nresults) = Len(ninput)
    /\ nstored' = SelectSeq(nresults, IsTyped)
    /\ nresp' = ProcessResponse(Len(SelectSeq(nresults, IsTyped)))
    /\ nbusy' = FALSE
    /\ UNCHANGED << nkind, ninput, nresults, nonNormVars >>

NormNext ==
    \/ \E kind \in Kinds : \E rows \in Batches(MaxBatch) :
          SubmitBatch(kind, rows)
    \/ NormalizeRow
    \/ LoadBatch

\* ------------------------------------------------------ the Metrics Engine
\* Job rows in the store.
MaxJobs == 3

\* Technician names, in ascending order.
Technicians == << "Ali", "Bilal", "Usman" >>

TechnicianNames == { Technicians[i] : i \in DOMAIN Technicians }

\* The place of a name in the ascending order of names.
NameRank(n) == CHOOSE i \in DOMAIN Technicians : Technicians[i] = n

\* Times, in hours of the service day; the configured grace window.
PromisedTime == 10
GraceWindow == 2

DeliveryTimes ==
    { PromisedTime, PromisedTime + GraceWindow, PromisedTime + GraceWindow + 1 }

\* Service dates, as days of one month.
ServiceDates == {3, 4}

\* The columns of daily_cpus_reports the Metrics Engine reads.
JobRows ==
    { [technician_name |-> t, service_date |-> d,
       promised_date_time |-> PromisedTime, delivery_date_time |-> v] :
        t \in TechnicianNames, d \in ServiceDates, v \in DeliveryTimes }

\* The number of stored job rows among S.
CountJobs(S) ==
    BagCardinality([r \in { x \in DOMAIN jobs : x \in S } |-> jobs[r]])

\* on_time if delivery <= promised, grace if within the grace window after
\* the promised time (its boundary included), late otherwise.
ClassifyGraceExclusive(row) ==
    IF row.delivery_date_time <= row.promised_date_time THEN "on_time"
    ELSE IF row.delivery_date_time < row.promised_date_time + GraceWindow
         THEN "grace"
         ELSE "late"
Classify(row) ==
    IF row.delivery_date_time <= row.promised_date_time THEN "on_time"
    ELSE IF row.delivery_date_time <= row.promised_date_time + GraceWindow
         THEN "grace"
         ELSE "late"

RowsOfTechnician(t) == { r \in JobRows : r.technician_name = t }

OnTimeRows(t) == { r \in RowsOfTechnician(t) : Classify(r) = "on_time" }

\* on_time / total * 100, in tenths of a percent, rounded to the nearest.
EfficiencyPercent(on_time, total) ==
    (2000 * on_time + total) \div (2 * total)

\* The technicians that have job rows, with their counts.
TechStatsOf(t) ==
    LET on_time == CountJobs(OnTimeRows(t))
        total == CountJobs(RowsOfTechnician(t))
    IN  [technician |-> t, on_time |-> on_time, total_jobs |-> total,
         efficiency_percent |-> EfficiencyPercent(on_time, total)]

TechStats ==
    { TechStatsOf(t) :
        t \in { u \in TechnicianNames : CountJobs(RowsOfTechnician(u)) > 0 } }

\* a ranks before b: efficiency_percent descending, ties broken by total_jobs
\* descending, then by technician name ascending.
PrecedesIgnoringName(a, b) ==
    \/ a.efficiency_percent > b.efficiency_percent
    \/ /\ a.efficiency_percent = b.efficiency_percent
       /\ a.total_jobs > b.total_jobs
Precedes(a, b) ==
    \/ a.efficiency_percent > b.efficiency_percent
    \/ /\ a.efficiency_percent = b.efficiency_percent
       /\ \/ a.total_jobs > b.total_jobs
          \/ /\ a.total_jobs = b.total_jobs
             /\ NameRank(a.technician) < NameRank(b.technician)

\* position: the 1-based rank after tie-breaking.
Position(S, a) == 1 + Cardinality({ b \in S : Precedes(b, a) })

Ranked(S) ==
    { [position |-> Position(S, a), technician |-> a.technician,
       efficiency_percent |-> a.efficiency_percent, on_time |-> a.on_time,
       total_jobs |-> a.total_jobs] : a \in S }

\* The rows of S as a list, by position.
RECURSIVE ByPosition(_)
ByPosition(S) ==
    IF S = {} THEN << >>
    ELSE LET x == CHOOSE y \in S : \A z \in S : y.position <= z.position
         IN  << x >> \o ByPosition(S \ {x})

\* The timestamp of a response.
Timestamp == "2025-01-17T12:30:00"

\* A query over n matching rows succeeds: an empty result set is success
\* with zero rows, not a failure.
SucceedsIfAnyRow(n) == n > 0
Succeeds(n) == TRUE

\* GET /jobs-overview.
JobsOverview ==
    [success |-> Succeeds(CountJobs(JobRows)),
     num_total_jobs |-> CountJobs(JobRows),
     total_technicians |-> Cardinality(TechStats),
     job_data |-> ByPosition(Ranked(TechStats)),
     timestamp |-> Timestamp]

\* No response of GET /jobs-overview yet.
NoOverview ==
    [success |-> FALSE, num_total_jobs |-> 0, total_technicians |-> 0,
     job_data |-> << >>, timestamp |-> ""]

\* The job rows of technician name with a service date in the range.
Matching(name, start_date, end_date) ==
    { r \in JobRows : /\ r.technician_name = name
                      /\ start_date <= r.service_date
                      /\ r.service_date <= end_date }

\* GET /technician-performance?name=&start_date=&end_date=.
TechnicianPerformance(name, start_date, end_date) ==
    LET M == Matching(name, start_date, end_date)
    IN  [success |-> Succeeds(CountJobs(M)), technician_name |-> name,
         start_date |-> start_date, end_date |-> end_date,
         late_jobs |-> CountJobs({ r \in M : Classify(r) = "late" }),
         ontime_jobs |-> CountJobs({ r \in M : Classify(r) = "on_time" }),
         grace_jobs |-> CountJobs({ r \in M : Classify(r) = "grace" }),
         total_jobs |-> CountJobs(M),
         timestamp |-> Timestamp]

\* No response of GET /technician-performance yet.
NoPerformance ==
    [success |-> FALSE, technician_name |-> "", start_date |-> 0,
     end_date |-> 0, late_jobs |-> 0, ontime_jobs |-> 0, grace_jobs |-> 0,
     total_jobs |-> 0, timestamp |-> ""]

\* mapped.sort((a, b) => a.position - b.position): a stable sort.
RECURSIVE SortByPosition(_)
SortByPosition(rows) ==
    IF rows = << >> THEN << >>
    ELSE LET i == CHOOSE j \in DOMAIN rows :
                     /\ \A k \in DOMAIN rows :
                            rows[j].position <= rows[k].position
                     /\ \A k \in 1 .. (j - 1) :
                            rows[k].position > rows[j].position
             rest == [k \in 1 .. (Len(rows) - 1) |->
                         IF k < i THEN rows[k] ELSE rows[k + 1]]
         IN  << rows[i] >> \o SortByPosition(rest)

\* overallRanking of the technician-efficiency page.
overallRanking ==
    IF Len(overviewRows) = 0 THEN << >>
    ELSE SortByPosition(
             [i \in DOMAIN overviewRows |->
                 [tech |-> overviewRows[i].technician,
                  effPct |-> overviewRows[i].efficiency_percent,
                  onTime |-> overviewRows[i].on_time,
                  total |-> overviewRows[i].total_jobs,
                  position |-> overviewRows[i].position]])

\* techPerformance of the page before any report: null.
NoTechPerformance ==
    [name |-> "", late |-> 0, onTime |-> 0, grace |-> 0, total |-> 0]

MetricInit ==
    /\ jobs = EmptyBag
    /\ serving = FALSE
    /\ overview = NoOverview
    /\ perf = NoPerformance
    /\ overviewRows = << >>
    /\ overviewError = NULL
    /\ techPerformance = NoTechPerformance
    /\ perfError = NULL
    /\ totalJobs = << >>
    /\ totalTechs = << >>
    /\ overviewCache = << >>

\* A job row is loaded into the store.
AddJob(row) ==
    /\ ~ serving
    /\ CountJobs(JobRows) < MaxJobs
    /\ jobs' = jobs (+) SetToBag({row})
    /\ UNCHANGED << serving, overview, perf, overviewRows, overviewError,
                    techPerformance, perfError, overviewPageVars,
                    nonMetricVars >>

\* The batch is loaded: the queries are served from here on.
StartServing ==
    /\ ~ serving
    /\ serving' = TRUE
    /\ UNCHANGED << jobs, overview, perf, overviewRows, overviewError,
                    techPerformance, perfError, overviewPageVars,
                    nonMetricVars >>

\* What fetch of a route of the dashboard gives a page: a rejection, or a
\* response with its status, its status text and its body, as text and as
\* the value res.json() parses from it.
Rejected ==
    [rejects |-> TRUE, status |-> 0, statusText |-> "", text |-> "",
     data |-> [success |-> FALSE]]

Resolved(status, statusText, text, data) ==
    [rejects |-> FALSE, status |-> status, statusText |-> statusText,
     text |-> text, data |-> data]

\* The body of a route that failed.
FailureText == "{\"success\":false}"

\* A jobs-overview body that reports a failure.
FailedOverview ==
    [success |-> FALSE, num_total_jobs |-> 0, total_technicians |-> 0,
     job_data |-> << >>, timestamp |-> Timestamp]

\* The reply of /api/jobs-overview with the response of the Metrics Engine.
ServedOverview == Resolved(200, "OK", "", JobsOverview)

OverviewReplies ==
    { ServedOverview,
      Resolved(200, "OK", "", FailedOverview),
      Resolved(503, "Service Unavailable", FailureText, FailedOverview),
      Rejected }

\* The overview of the page: what it shows, and the cache.
OverviewNow ==
    [totalJobs |-> totalJobs, totalTechs |-> totalTechs,
     overviewRows |-> overviewRows, overviewError |-> overviewError,
     overviewCache |-> overviewCache]

\* applyOverview.
applyOverview(view, data) ==
    [view EXCEPT !.totalJobs = << data.num_total_jobs >>,
                 !.totalTechs = << data.total_technicians >>,
                 !.overviewRows = data.job_data]

\* The error refreshOverview catches, NULL if nothing is thrown.
OverviewThrown(res) ==
    IF res.rejects THEN FetchFailedMsg
    ELSE IF ~ (res.status >= 200 /\ res.status <= 299)
    THEN "Failed to fetch jobs overview (status " \o ToString(res.status)
             \o ")"
    ELSE IF ~ res.data.success
    THEN "API returned success = false for jobs overview"
    ELSE NULL

\* The overview after refreshOverview with the reply res.
RefreshedCachingAnyBody(view, res) ==
    IF res.rejects \/ ~ (res.status >= 200 /\ res.status <= 299)
    THEN [view EXCEPT !.overviewError = OverviewThrown(res)]
    ELSE [applyOverview(view, res.data) EXCEPT
              !.overviewError = NULL, !.overviewCache = << res.data >>]

Refreshed(view, res) ==
    IF OverviewThrown(res) = NULL
    THEN [applyOverview(view, res.data) EXCEPT
              !.overviewError = NULL, !.overviewCache = << res.data >>]
    ELSE [view EXCEPT !.overviewError = OverviewThrown(res)]

\* The page takes the overview.
SetOverview(view) ==
    /\ totalJobs' = view.totalJobs
    /\ totalTechs' = view.totalTechs
    /\ overviewRows' = view.overviewRows
    /\ overviewError' = view.overviewError
    /\ overviewCache' = view.overviewCache

\* refreshOverview: fetch /api/jobs-overview, apply it and cache it, or set
\* the error.
refreshOverview(res) ==
    /\ serving
    /\ overview' = IF res.rejects \/ res.status # 200 THEN overview
                   ELSE res.data
    /\ SetOverview(Refreshed(OverviewNow, res))
    /\ UNCHANGED << jobs, serving, perf, techPerformance, perfError,
                    nonMetricVars >>

\* The page is mounted: its state is new, the cache is applied if it holds
\* an overview, and if not refreshOverview is called.
MountOverview(res) ==
    /\ serving
    /\ LET view == [OverviewNow EXCEPT !.totalJobs = << >>,
                                       !.totalTechs = << >>,
                                       !.overviewRows = << >>,
                                       !.overviewError = NULL]
       IN  IF overviewCache # << >> /\ overviewCache[1].success
           THEN /\ SetOverview(applyOverview(view, overviewCache[1]))
                /\ overview' = overview
           ELSE /\ SetOverview(Refreshed(view, res))
                /\ overview' = IF res.rejects \/ res.status # 200
                               THEN overview ELSE res.data
    /\ UNCHANGED << jobs, serving, perf, techPerformance, perfError,
                    nonMetricVars >>

\* techOptions: the technicians of the ranking the page shows.
techOptions == { overallRanking[i].tech : i \in DOMAIN overallRanking }

\* normalizedFrom and normalizedTo: the two dates of the filter, in order.
normalizedFrom(fromDate, toDate) == IF fromDate <= toDate THEN fromDate ELSE toDate

normalizedTo(fromDate, toDate) == IF fromDate <= toDate THEN toDate ELSE fromDate

\* handleGenerateReport: the performance of the selected technician, one of
\* techOptions, in the date range of the filter.
handleGenerateReport(selectedTech, fromDate, toDate) ==
    /\ serving
    /\ selectedTech # ""
    /\ LET data == TechnicianPerformance(selectedTech,
                                         normalizedFrom(fromDate, toDate),
                                         normalizedTo(fromDate, toDate))
       IN  /\ perf' = data
           /\ IF data.success
              THEN /\ techPerformance' =
                          [name |-> data.technician_name,
                           late |-> data.late_jobs,
                           onTime |-> data.ontime_jobs,
                           grace |-> data.grace_jobs,
                           total |-> data.total_jobs]
                   /\ perfError' = NULL
              ELSE /\ techPerformance' = NoTechPerformance
                   /\ perfError' =
                          "API returned success = false for technician performance"
    /\ UNCHANGED << jobs, serving, overview, overviewRows, overviewError,
                    overviewPageVars, nonMetricVars >>

MetricNext ==
    \/ \E row \in JobRows : AddJob(row)
    \/ StartServing
    \/ refreshOverview(ServedOverview)
    \/ \E selectedTech \in techOptions :
          \E fromDate \in ServiceDates :
             \E toDate \in ServiceDates :
                handleGenerateReport(selectedTech, fromDate, toDate)

\* ---------------------------------------------------------- the rework rate
\* Delivered vehicles in the store.
MaxVehicles == 3

\* Months, as year and month of the year: "2024-12" is << 2024, 12 >>.
Months == { << 2024, 12 >>, << 2025, 1 >>, << 2025, 2 >> }

\* a.localeCompare(b) < 0 of two YYYY-MM strings.
MonthBefore(a, b) == a[1] < b[1] \/ (a[1] = b[1] /\ a[2] < b[2])

MonthNames ==
    << "Jan", "Feb", "Mar", "Apr", "May", "Jun", "Jul", "Aug", "Sep", "Oct",
       "Nov", "Dec" >>

\* formatMonthLabel: "2025-01" gives "Jan 2025".
formatMonthLabel(yyyymm) == << MonthNames[yyyymm[2]], yyyymm[1] >>

\* A delivered vehicle: the month of its delivery, and whether it is a rework.
VehicleRows == { [month |-> m, is_rework |-> b] : m \in Months, b \in BOOLEAN }

\* The number of stored vehicles among S.
CountVehicles(S) ==
    BagCardinality([r \in { x \in DOMAIN vehicles : x \in S } |-> vehicles[r]])

ReworkRows == { r \in VehicleRows : r.is_rework }

\* total_rework / total_jobs * 100, in tenths of a percent, rounded to the
\* nearest; zero over no jobs.
ReworkRate(total_rework, total_jobs) ==
    IF total_jobs = 0 THEN 0
    ELSE (2000 * total_rework + total_jobs) \div (2 * total_jobs)

\* first_time_fix_rate = 100 - rework_rate, in tenths of a percent.
FirstTimeFixRateTruncated(total_rework, total_jobs) ==
    IF total_jobs = 0 THEN 1000
    ELSE (1000 * (total_jobs - total_rework)) \div total_jobs
FirstTimeFixRate(total_rework, total_jobs) ==
    1000 - ReworkRate(total_rework, total_jobs)

\* The months that have vehicles, with the reworks of each.
MonthBuckets ==
    { [month |-> m,
       rework_count |-> CountVehicles({ r \in ReworkRows : r.month = m })] :
        m \in { r.month : r \in DOMAIN vehicles } }

\* The buckets as a list, the latest month first.
RECURSIVE LatestFirst(_)
LatestFirst(S) ==
    IF S = {} THEN << >>
    ELSE LET x == CHOOSE y \in S :
                     \A z \in S \ {y} : MonthBefore(z.month, y.month)
         IN  << x >> \o LatestFirst(S \ {x})

\* GET /rework-rate.
ReworkRateResponse ==
    [success |-> TRUE,
     rework_rate |-> ReworkRate(CountVehicles(ReworkRows),
                                CountVehicles(VehicleRows)),
     first_time_fix_rate |-> FirstTimeFixRate(CountVehicles(ReworkRows),
                                              CountVehicles(VehicleRows)),
     total_rework |-> CountVehicles(ReworkRows),
     total_jobs |-> CountVehicles(VehicleRows),
     rework_by_month |-> LatestFirst(MonthBuckets),
     timestamp |-> Timestamp]

\* No response of GET /rework-rate yet.
NoReworkRate ==
    [success |-> FALSE, rework_rate |-> 0, first_time_fix_rate |-> 0,
     total_rework |-> 0, total_jobs |-> 0, rework_by_month |-> << >>,
     timestamp |-> ""]

\* [...data.rework_by_month].sort((a, b) => a.month.localeCompare(b.month)):
\* a stable sort of a copy.
RECURSIVE SortByMonth(_)
SortByMonth(rows) ==
    IF rows = << >> THEN << >>
    ELSE LET i == CHOOSE j \in DOMAIN rows :
                     /\ \A k \in DOMAIN rows :
                            ~ MonthBefore(rows[k].month, rows[j].month)
                     /\ \A k \in 1 .. (j - 1) :
                            MonthBefore(rows[j].month, rows[k].month)
             rest == [k \in 1 .. (Len(rows) - 1) |->
                         IF k < i THEN rows[k] ELSE rows[k + 1]]
         IN  << rows[i] >> \o SortByMonth(rest)

ReworkInit ==
    /\ vehicles = EmptyBag
    /\ reworkServing = FALSE
    /\ rework = NoReworkRate
    /\ reworkRate = 0
    /\ ftfr = 0
    /\ totalReworks = 0
    /\ months = << >>
    /\ monthlyCounts = << >>
    /\ kpiError = NULL
    /\ reworkCache = << >>

\* A delivered vehicle is loaded into the store.
AddVehicle(row) ==
    /\ ~ reworkServing
    /\ CountVehicles(VehicleRows) < MaxVehicles
    /\ vehicles' = vehicles (+) SetToBag({row})
    /\ UNCHANGED << reworkServing, rework, reworkRate, ftfr, totalReworks,
                    months, monthlyCounts, kpiError, reworkCache,
                    nonReworkVars >>

\* The batch is loaded: the queries are served from here on.
StartReworkServing ==
    /\ ~ reworkServing
    /\ reworkServing' = TRUE
    /\ UNCHANGED << vehicles, rework, reworkRate, ftfr, totalReworks, months,
                    monthlyCounts, kpiError, reworkCache, nonReworkVars >>

\* A rework-rate body that reports a failure.
FailedReworkRate == [NoReworkRate EXCEPT !.timestamp = Timestamp]

\* The reply of /api/rework-rate with the response of the Metrics Engine.
ServedReworkRate == Resolved(200, "OK", "", ReworkRateResponse)

ReworkReplies ==
    { ServedReworkRate,
      Resolved(200, "OK", "", FailedReworkRate),
      Resolved(503, "Service Unavailable", FailureText, FailedReworkRate),
      Rejected }

\* The error fetchAndCacheReworkRate catches, NULL if nothing is thrown.
ReworkThrown(res) ==
    IF res.rejects THEN FetchFailedMsg
    ELSE IF ~ (res.status >= 200 /\ res.status <= 299)
    THEN "API /api/rework-rate error: " \o ToString(res.status) \o " "
             \o res.statusText \o " " \o res.text
    ELSE IF ~ res.data.success
    THEN "FastAPI /rework-rate returned success=false"
    ELSE NULL

\* applyReworkRateDataToState.
applyReworkRateDataToState(data) ==
    LET sorted == SortByMonth(data.rework_by_month)
    IN  /\ reworkRate' = data.rework_rate
        /\ ftfr' = data.first_time_fix_rate
        /\ totalReworks' = data.total_rework
        /\ months' = [i \in DOMAIN sorted |->
                         formatMonthLabel(sorted[i].month)]
        /\ monthlyCounts' = [i \in DOMAIN sorted |->
                                sorted[i].rework_count]

\* fetchAndCacheReworkRate: fetch /api/rework-rate and, on success, cache
\* it and apply it, or set the error.
fetchAndCacheReworkRate(res) ==
    /\ reworkServing
    /\ rework' = IF res.rejects \/ res.status # 200 THEN rework ELSE res.data
    /\ kpiError' = ReworkThrown(res)
    /\ IF ReworkThrown(res) = NULL
       THEN /\ reworkCache' = << res.data >>
            /\ applyReworkRateDataToState(res.data)
       ELSE UNCHANGED << reworkCache, reworkRate, ftfr, totalReworks, months,
                         monthlyCounts >>
    /\ UNCHANGED << vehicles, reworkServing, nonReworkVars >>

\* The page is mounted: its state is new, the cache is applied if it holds
\* a response, and if not fetchAndCacheReworkRate is called.
MountReworkRate(res) ==
    /\ reworkServing
    /\ IF reworkCache # << >> /\ reworkCache[1].success
       THEN /\ applyReworkRateDataToState(reworkCache[1])
            /\ kpiError' = NULL
            /\ UNCHANGED << rework, reworkCache >>
       ELSE /\ rework' = IF res.rejects \/ res.status # 200 THEN rework
                         ELSE res.data
            /\ kpiError' = ReworkThrown(res)
            /\ IF ReworkThrown(res) = NULL
               THEN /\ reworkCache' = << res.data >>
                    /\ applyReworkRateDataToState(res.data)
               ELSE /\ reworkCache' = reworkCache
                    /\ reworkRate' = 0
                    /\ ftfr' = 0
                    /\ totalReworks' = 0
                    /\ months' = << >>
                    /\ monthlyCounts' = << >>
    /\ UNCHANGED << vehicles, reworkServing, nonReworkVars >>

ReworkNext ==
    \/ \E row \in VehicleRows : AddVehicle(row)
    \/ StartReworkServing
    \/ fetchAndCacheReworkRate(ServedReworkRate)

\* ---------------------------------------------------------- date helpers
\* A string is a list of characters.
DigitChars == << "0", "1", "2", "3", "4", "5", "6", "7", "8", "9" >>

DigitValue(ch) == (CHOOSE i \in DOMAIN DigitChars : DigitChars[i] = ch) - 1

\* Number(str) of a string of digits.
RECURSIVE Number(_)
Number(str) ==
    IF str = << >> THEN 0
    ELSE 10 * Number(SubSeq(str, 1, Len(str) - 1)) + DigitValue(str[Len(str)])

\* String(n) of a number n >= 0.
RECURSIVE String(_)
String(n) ==
    IF n < 10 THEN << DigitChars[n + 1] >>
    ELSE String(n \div 10) \o << DigitChars[(n % 10) + 1] >>

\* str.padStart(2, "0").
padStart2(str) == IF Len(str) < 2 THEN << "0" >> \o str ELSE str

\* s.split("-").
RECURSIVE split(_)
split(str) ==
    IF \A i \in DOMAIN str : str[i] # "-" THEN << str >>
    ELSE LET i == CHOOSE j \in DOMAIN str :
                     /\ str[j] = "-"
                     /\ \A k \in 1 .. (j - 1) : str[k] # "-"
         IN  << SubSeq(str, 1, i - 1) >>
                 \o split(SubSeq(str, i + 1, Len(str)))

IsLeapYear(y) == (y % 4 = 0 /\ y % 100 # 0) \/ y % 400 = 0

\* The days of month m (0 is January) of year y.
DaysInMonth(y, m) ==
    IF m = 1 THEN (IF IsLeapYear(y) THEN 29 ELSE 28)
    ELSE IF m \in {3, 5, 8, 10} THEN 30 ELSE 31

\* new Date(y, m, d) at local midnight, for m in 0..11 and d in 1..31: a year
\* from 0 to 99 is taken as 1900 + y, and a day past the end of the month
\* runs into the next month.
NewDate(y, m, d) ==
    LET year == IF y >= 0 /\ y <= 99 THEN 1900 + y ELSE y
    IN  IF d <= DaysInMonth(year, m)
        THEN [year |-> year, month |-> m, date |-> d]
        ELSE IF m = 11
             THEN [year |-> year + 1, month |-> 0,
                   date |-> d - DaysInMonth(year, m)]
             ELSE [year |-> year, month |-> m + 1,
                   date |-> d - DaysInMonth(year, m)]

\* Parse a YYYY-MM-DD string into a Date at local midnight.
parseYYYYMMDDToLocalDate(str) ==
    LET parts == split(str)
        y == Number(parts[1])
        m == Number(parts[2]) - 1
        d == Number(parts[3])
    IN  NewDate(y, m, d)

\* Format a Date (local) into YYYY-MM-DD.
formatLocalDateToYYYYMMDD(date) ==
    LET y == date.year
        m == padStart2(String(date.month + 1))
        day == padStart2(String(date.date))
    IN  String(y) \o << "-" >> \o m \o << "-" >> \o day

\* The years, months and days of the strings entered.
YearTexts ==
    { << "2", "0", "2", "5" >>, << "2", "0", "2", "4" >>,
      << "1", "9", "9", "9" >>, << "0", "9", "9", "9" >>,
      << "0", "0", "9", "9" >>, << "0", "0", "0", "0" >> }

MonthTexts == { padStart2(String(m)) : m \in 1 .. 12 }

DayTexts == { padStart2(String(d)) : d \in {1, 9, 10, 28, 29, 30, 31} }

\* The valid YYYY-MM-DD strings: a four-digit year, a month from 01 to 12 and
\* a day of that month.
ValidDateTexts ==
    { y \o << "-" >> \o m \o << "-" >> \o d :
        y \in YearTexts,
        m \in MonthTexts,
        d \in DayTexts }

IsValidDateText(str) ==
    Number(SubSeq(str, 9, 10))
        <= DaysInMonth(Number(SubSeq(str, 1, 4)), Number(SubSeq(str, 6, 7)) - 1)

NoText == << >>

NoDate == [year |-> 0, month |-> 0, date |-> 0]

DateInit ==
    /\ dateText = NoText
    /\ dateValue = NoDate
    /\ dateBack = NoText
    /\ dateAgain = NoDate

\* A valid YYYY-MM-DD string reaches the page.
EnterDate(str) ==
    /\ IsValidDateText(str)
    /\ dateText' = str
    /\ dateValue' = NoDate
    /\ dateBack' = NoText
    /\ dateAgain' = NoDate
    /\ UNCHANGED nonDateVars

\* value={fromDate ? parseYYYYMMDDToLocalDate(fromDate) : null}
ShowDate ==
    /\ dateText # NoText
    /\ dateValue = NoDate
    /\ dateValue' = parseYYYYMMDDToLocalDate(dateText)
    /\ UNCHANGED << dateText, dateBack, dateAgain, nonDateVars >>

\* onChange: setFromDate(newValue ? formatLocalDateToYYYYMMDD(newValue) : "")
ChangeDate ==
    /\ dateValue # NoDate
    /\ dateBack = NoText
    /\ dateBack' = formatLocalDateToYYYYMMDD(dateValue)
    /\ UNCHANGED << dateText, dateValue, dateAgain, nonDateVars >>

\* The page shows the new string.
ShowDateAgain ==
    /\ dateBack # NoText
    /\ dateAgain = NoDate
    /\ dateAgain' = parseYYYYMMDDToLocalDate(dateBack)
    /\ UNCHANGED << dateText, dateValue, dateBack, nonDateVars >>

DateNext ==
    \/ \E str \in ValidDateTexts : EnterDate(str)
    \/ ShowDate
    \/ ChangeDate
    \/ ShowDateAgain

\* ------------------------------------------------- sign-in and the proxy
\* Steps of the clock.
MaxTicks == 3

VALID_EMAIL == "manager@toyotagt.com.pk"
VALID_PASS == "123Toyota"
DAYS_30_SEC == 30 * 24 * 60 * 60

\* maxAge of the cookie auth_banned.
BanMaxAge == 10 * 365 * 24 * 60 * 60

PROTECTED_PREFIXES ==
    { << "/", "m", "a", "n", "a", "g", "e", "r", "-", "d", "a", "s", "h", "b",
         "o", "a", "r", "d" >> }

\* The path of the sign-in page.
HomePath == << "/" >>

\* Paths of requests.
Paths ==
    { << "/" >>,
      << "/", "m", "a", "n", "a", "g", "e", "r", "-", "d", "a", "s", "h", "b", "o",
         "a", "r", "d" >>,
      << "/", "m", "a", "n", "a", "g", "e", "r", "-", "d", "a", "s", "h", "b", "o",
         "a", "r", "d", "/", "d", "a", "i", "l", "y", "-", "r", "e", "p", "o",
         "r", "t" >>,
      << "/", "m", "a", "n", "a", "g", "e", "r", "-", "d", "a", "s", "h", "b", "o",
         "a", "r", "d", "s" >> }

\* pathname.startsWith(p).
startsWith(str, p) == Len(str) >= Len(p) /\ SubSeq(str, 1, Len(p)) = p

\* A cookie of the browser: absent, or a value that lives until expires, or
\* for as long as the browser does when it was set without Max-Age.
NoCookie ==
    [present |-> FALSE, value |-> << >>, persistent |-> FALSE, expires |-> 0,
     expiresHalf |-> 0]

\* The cookie that name=value with Max-Age=maxAge, set at time t, leaves: it
\* lives for maxAge seconds from the instant it is set, which is t seconds
\* and the part below the second.
CookieSet(value, maxAge, t) ==
    [present |-> TRUE, value |-> value, persistent |-> TRUE,
     expires |-> t + maxAge, expiresHalf |-> half]

\* The cookie that name=value without Max-Age leaves.
SessionCookie(value) ==
    [present |-> TRUE, value |-> value, persistent |-> FALSE, expires |-> 0,
     expiresHalf |-> 0]

\* The browser still has the cookie at time t.
Live(cookie, t) ==
    /\ cookie.present
    /\ cookie.persistent =>
           \/ t < cookie.expires
           \/ t = cookie.expires /\ half < cookie.expiresHalf

\* readCookie(name), cookies.get(name)?.value: the value, or none.
readCookie(cookie, t) ==
    IF Live(cookie, t) THEN [present |-> TRUE, value |-> cookie.value]
    ELSE [present |-> FALSE, value |-> << >>]

IsDigitChar(ch) == \E j \in DOMAIN DigitChars : DigitChars[j] = ch

\* The string is a decimal number: Number(str) is not NaN.
IsNumeric(str) == str # << >> /\ \A i \in DOMAIN str : IsDigitChar(str[i])

\* The digits str starts with.
RECURSIVE LeadingDigits(_)
LeadingDigits(str) ==
    IF str = << >> \/ ~ IsDigitChar(Head(str)) THEN << >>
    ELSE << Head(str) >> \o LeadingDigits(Tail(str))

\* parseInt(str, 10), and whether it is a finite number rather than NaN.
parseInt(str) == Number(LeadingDigits(str))

parseIntIsFinite(str) == LeadingDigits(str) # << >>

\* now >= exp.
IsExpiredStrictly(t, exp) == t > exp
IsExpired(t, exp) == t >= exp

NoProxyReq ==
    [pathname |-> << >>, session |-> readCookie(NoCookie, 0),
     expStr |-> readCookie(NoCookie, 0), banned |-> readCookie(NoCookie, 0),
     now |-> 0]

NoProxyRes ==
    [kind |-> "none", location |-> << >>, query |-> "", ban |-> FALSE]

AuthInit ==
    /\ now = 0
    /\ half = 0
    /\ ticks = 0
    /\ auth_session = NoCookie
    /\ auth_exp = NoCookie
    /\ auth_banned = NoCookie
    /\ signInError = ""
    /\ lastReq = NoProxyReq
    /\ lastRes = NoProxyRes
    /\ firstExp = 0

\* The clock advances by seconds, to the part halfAfter of its second.
Tick(seconds, halfAfter) ==
    /\ ticks < MaxTicks
    /\ ticks' = ticks + 1
    /\ now' = now + seconds
    /\ half' = halfAfter
    /\ UNCHANGED << auth_session, auth_exp, auth_banned, signInError, lastReq,
                    lastRes, firstExp, nonAuthVars >>

\* onSignIn of the sign-in page.
onSignIn(username, password) ==
    LET isValid == username = VALID_EMAIL /\ password = VALID_PASS
        banned == readCookie(auth_banned, now)
        isBanned == banned.present /\ banned.value = << "1" >>
        existing == readCookie(auth_exp, now)
        existingExp == existing.present /\ existing.value # << >>
        finite == existingExp /\ parseIntIsFinite(existing.value)
        exp == IF existingExp THEN parseInt(existing.value)
               ELSE now + DAYS_30_SEC
    IN  /\ UNCHANGED << now, half, ticks, lastReq, lastRes, nonAuthVars >>
        /\ IF username = "" \/ password = ""
           THEN /\ signInError' = "Please enter both username and password."
                /\ UNCHANGED << auth_session, auth_exp, auth_banned,
                                firstExp >>
           ELSE IF isBanned
           THEN /\ signInError' =
                       "Login disabled. You cannot use this password again."
                /\ UNCHANGED << auth_session, auth_exp, auth_banned,
                                firstExp >>
           ELSE IF ~ isValid
           THEN /\ signInError' = "Invalid credentials."
                /\ UNCHANGED << auth_session, auth_exp, auth_banned,
                                firstExp >>
           ELSE IF existingExp /\ finite /\ now >= exp
           THEN /\ auth_banned' = CookieSet(<< "1" >>, BanMaxAge, now)
                /\ auth_session' = NoCookie
                /\ auth_exp' = NoCookie
                /\ signInError' =
                       "Login disabled. You cannot use this password again."
                /\ UNCHANGED firstExp
           ELSE /\ auth_exp' =
                       IF existingExp THEN auth_exp
                       ELSE CookieSet(String(exp), DAYS_30_SEC, now)
                /\ auth_session' =
                       IF existingExp /\ ~ finite
                       THEN SessionCookie(<< "1" >>)
                       ELSE CookieSet(<< "1" >>,
                                      IF exp - now > 1 THEN exp - now ELSE 1,
                                      now)
                /\ auth_banned' = NoCookie
                /\ signInError' = ""
                /\ firstExp' = IF firstExp = 0 /\ ~ existingExp THEN exp
                               ELSE firstExp

\* handleLogout of the dashboard layout.
handleLogout ==
    /\ auth_session' = NoCookie
    /\ auth_exp' = NoCookie
    /\ UNCHANGED << now, half, ticks, auth_banned, signInError, lastReq,
                    lastRes, firstExp, nonAuthVars >>

\* proxy(req) at time t, for a request of pathname with the three cookies:
\* the answer, and whether it clears the session and sets auth_banned.
proxy(pathname, session, expStr, bannedCookie, t) ==
    LET needsAuth == \E p \in PROTECTED_PREFIXES : startsWith(pathname, p)
        banned == bannedCookie.present /\ bannedCookie.value = << "1" >>
    IN  IF ~ needsAuth
        THEN [kind |-> "next", location |-> << >>, query |-> "",
              ban |-> FALSE]
        ELSE IF banned
        THEN [kind |-> "redirect", location |-> HomePath,
              query |-> "banned=1", ban |-> FALSE]
        ELSE IF \/ ~ session.present
                \/ session.value = << >>
                \/ ~ expStr.present
                \/ expStr.value = << >>
        THEN [kind |-> "redirect", location |-> HomePath,
              query |-> "expired=1", ban |-> FALSE]
        ELSE IF \/ ~ IsNumeric(expStr.value)
                \/ IsExpired(t, Number(expStr.value))
        THEN [kind |-> "redirect", location |-> HomePath, query |-> "",
              ban |-> TRUE]
        ELSE [kind |-> "next", location |-> << >>, query |-> "",
              ban |-> FALSE]

\* The browser requests pathname with the cookies it has, and takes the
\* cookies of the answer.
Navigate(pathname) ==
    LET session == readCookie(auth_session, now)
        expStr == readCookie(auth_exp, now)
        bannedCookie == readCookie(auth_banned, now)
        res == proxy(pathname, session, expStr, bannedCookie, now)
    IN  /\ lastReq' = [pathname |-> pathname, session |-> session,
                       expStr |-> expStr, banned |-> bannedCookie,
                       now |-> now]
        /\ lastRes' = res
        /\ IF res.ban
           THEN /\ auth_session' = NoCookie
                /\ auth_exp' = NoCookie
                /\ auth_banned' = CookieSet(<< "1" >>, BanMaxAge, now)
           ELSE UNCHANGED << auth_session, auth_exp, auth_banned >>
        /\ UNCHANGED << now, half, ticks, signInError, firstExp, nonAuthVars >>

\* The cookie values a client may send.
SessionValues == { << >>, << "1" >> }

ExpValues(t) == { << >>, << "a", "b", "c" >>, String(t), String(t + 1) }

BannedValues == { << "1" >>, << "0" >> }

\* A cookie of a request: absent, or one of the values.
Sent(values) ==
    { [present |-> FALSE, value |-> << >>] }
        \cup { [present |-> TRUE, value |-> v] : v \in values }

\* Any client requests pathname with cookies of its choice.
Request(pathname, session, expStr, bannedCookie) ==
    /\ lastReq' = [pathname |-> pathname, session |-> session,
                   expStr |-> expStr, banned |-> bannedCookie, now |-> now]
    /\ lastRes' = proxy(pathname, session, expStr, bannedCookie, now)
    /\ UNCHANGED << now, half, ticks, auth_session, auth_exp, auth_banned,
                    signInError, firstExp, nonAuthVars >>

Usernames == { "", VALID_EMAIL, "someone@toyotagt.com.pk" }

Passwords == { "", VALID_PASS, "123" }

ClockSteps == { 1, DAYS_30_SEC - 1 }

\* The time a browser may be left alone: the maxAge of auth_exp, or that of
\* auth_banned.
BrowserClockSteps == { DAYS_30_SEC, BanMaxAge }

AuthNext ==
    \/ \E seconds \in BrowserClockSteps : \E halfAfter \in {0, 1} :
          Tick(seconds, halfAfter)
    \/ \E username \in Usernames : \E password \in Passwords :
          onSignIn(username, password)
    \/ handleLogout
    \/ \E pathname \in Paths : Navigate(pathname)

ProxyNext ==
    \/ \E seconds \in ClockSteps : Tick(seconds, half)
    \/ \E pathname \in Paths :
          \E session \in Sent(SessionValues) :
             \E expStr \in Sent(ExpValues(now)) :
                \E bannedCookie \in Sent(BannedValues) :
                   Request(pathname, session, expStr, bannedCookie)

\* ---------------------------------------------------------- the API routes
Routes ==
    { "jobs-overview", "technician-performance", "rework-rate",
      "rework-rate-by-date", "top-5-late-cars", "job-records", "msi-monthly",
      "msi-late-last-30-days" }

\* The value of a body that is not JSON.
NotJson == [notJson |-> TRUE]

\* Bodies FastAPI may send: the text, and the value JSON.parse gives for it.
Texts ==
    { [raw |-> "{\"success\":true,\"data\":[1]}",
       value |-> [success |-> TRUE, data |-> << 1 >>]],
      [raw |-> "{\"success\":false,\"detail\":\"No data\"}",
       value |-> [success |-> FALSE, detail |-> "No data"]],
      [raw |-> "{\"detail\":\"Not Found\"}",
       value |-> [detail |-> "Not Found"]],
      [raw |-> "Internal Server Error", value |-> NotJson],
      [raw |-> "", value |-> NotJson] }

UpstreamStatuses == { 200, 404, 500, 503 }

\* res.statusText.
statusText(status) ==
    CASE status = 200 -> "OK"
      [] status = 404 -> "Not Found"
      [] status = 500 -> "Internal Server Error"
      [] status = 503 -> "Service Unavailable"

\* res.ok.
ok(res) == res.status >= 200 /\ res.status <= 299

\* What the fetch of a route does: it rejects, or it resolves to a response.
Upstreams ==
    { [rejects |-> TRUE, message |-> "fetch failed", status |-> 0,
       text |-> [raw |-> "", value |-> NotJson]] }
    \cup { [rejects |-> FALSE, message |-> "", status |-> st, text |-> t] :
             st \in UpstreamStatuses, t \in Texts }

\* JSON.parse(text) and res.json() throw.
ParseThrows(text) == text.value = NotJson

ParseErrorMsg == "Unexpected token in JSON"

\* json.detail || fallback, with json the parsed body if it parses.
DetailOr(text, fallback) ==
    IF /\ ~ ParseThrows(text)
       /\ "detail" \in DOMAIN text.value
       /\ text.value.detail # ""
    THEN text.value.detail
    ELSE fallback

\* NextResponse.json(body, {status}).
Json(body, status) == [status |-> status, body |-> body]

UnavailableMsg ==
    "The server is currently unavailable. Please try again later."

\* GET of app/api/jobs-overview/route.ts.
jobsOverviewGET(res) ==
    IF res.rejects THEN Json([success |-> FALSE, detail |-> UnavailableMsg], 500)
    ELSE IF ~ ok(res)
    THEN Json([success |-> FALSE,
               detail |-> DetailOr(res.text,
                   "Failed to fetch jobs overview from FastAPI (status "
                       \o ToString(res.status) \o ").")],
              res.status)
    ELSE IF ParseThrows(res.text)
    THEN Json([success |-> FALSE, detail |-> UnavailableMsg], 500)
    ELSE Json(res.text.value, 200)

\* GET of app/api/job-records/route.ts.
jobRecordsGET(res) ==
    IF res.rejects THEN Json([success |-> FALSE, detail |-> UnavailableMsg], 500)
    ELSE IF ~ ok(res)
    THEN Json([success |-> FALSE,
               detail |-> DetailOr(res.text,
                   "Failed to fetch job records from FastAPI (status "
                       \o ToString(res.status) \o ").")],
              res.status)
    ELSE IF ParseThrows(res.text)
    THEN Json([success |-> FALSE, detail |-> UnavailableMsg], 500)
    ELSE Json(res.text.value, 200)

\* GET of app/api/technician-performance/route.ts.
technicianPerformanceGET(res) ==
    IF res.rejects
    THEN Json([success |-> FALSE, detail |-> res.message], 500)
    ELSE IF ~ ok(res)
    THEN Json([success |-> FALSE,
               detail |->
                   IF res.text.raw # "" THEN res.text.raw
                   ELSE "Failed to fetch technician performance from FastAPI (status "
                            \o ToString(res.status) \o ")"],
              res.status)
    ELSE IF ParseThrows(res.text)
    THEN Json([success |-> FALSE, detail |-> ParseErrorMsg], 500)
    ELSE Json(res.text.value, 200)

\* GET of app/api/rework-rate/route.ts.
reworkRateGET(res) ==
    IF res.rejects THEN Json([success |-> FALSE, detail |-> UnavailableMsg], 500)
    ELSE IF ~ ok(res)
    THEN Json([success |-> FALSE, detail |-> UnavailableMsg,
               raw |-> res.text.raw], res.status)
    ELSE IF ParseThrows(res.text)
    THEN Json([success |-> FALSE, detail |-> UnavailableMsg], 500)
    ELSE Json(res.text.value, 200)

\* GET of app/api/rework-rate-by-date/route.ts.
reworkRateByDateGET(res) ==
    LET unexpected ==
            Json([success |-> FALSE,
                  detail |->
                      "Unexpected error calling FastAPI /rework-rate-by-date"],
                 500)
    IN  IF res.rejects THEN unexpected
        ELSE IF ~ ok(res)
        THEN Json([success |-> FALSE,
                   detail |-> "FastAPI /rework-rate-by-date error: "
                                  \o ToString(res.status) \o " "
                                  \o statusText(res.status),
                   raw |-> res.text.raw], res.status)
        ELSE IF ParseThrows(res.text) THEN unexpected
        ELSE Json(res.text.value, 200)

\* GET of app/api/top-5-late-cars/route.ts.
top5LateCarsGET(res) ==
    IF res.rejects THEN Json([error |-> "Internal server error"], 500)
    ELSE IF ~ ok(res)
    THEN Json([error |-> "Failed to fetch top 5 late cars from backend"],
              res.status)
    ELSE IF ParseThrows(res.text)
    THEN Json([error |-> "Internal server error"], 500)
    ELSE Json(res.text.value, 200)

\* GET of app/api/msi-monthly/route.ts, with the category of the query.
msiMonthlyGET(category, res) ==
    IF category = ""
    THEN Json([success |-> FALSE,
               error |-> "Missing 'category' query parameter",
               monthly_data |-> << >>], 400)
    ELSE IF res.rejects
    THEN Json([success |-> FALSE, error |-> res.message,
               monthly_data |-> << >>], 500)
    ELSE IF ~ ok(res)
    THEN Json([success |-> FALSE,
               error |-> "Backend returned " \o ToString(res.status) \o ": "
                             \o res.text.raw,
               monthly_data |-> << >>], res.status)
    ELSE IF ParseThrows(res.text)
    THEN Json([success |-> FALSE, error |-> ParseErrorMsg,
               monthly_data |-> << >>], 500)
    ELSE Json(res.text.value, 200)

\* GET of app/api/msi-late-last-30-days/route.ts.
msiLateLast30DaysGET(res) ==
    IF res.rejects
    THEN Json([success |-> FALSE, error |-> res.message, data |-> << >>], 500)
    ELSE IF ~ ok(res)
    THEN Json([success |-> FALSE,
               error |-> "Backend returned " \o ToString(res.status) \o ": "
                             \o res.text.raw,
               data |-> << >>], res.status)
    ELSE IF ParseThrows(res.text)
    THEN Json([success |-> FALSE, error |-> ParseErrorMsg, data |-> << >>],
              500)
    ELSE Json(res.text.value, 200)

\* The categories of a request to msi-monthly: none, or one.
Categories == { "", "Engine" }

NoApiReq ==
    [route |-> "", category |-> "", fetched |-> FALSE,
     upstream |-> [rejects |-> TRUE, message |-> "fetch failed", status |-> 0,
                   text |-> [raw |-> "", value |-> NotJson]]]

NoApiRes == Json(NotJson, 0)

ApiInit ==
    /\ apiReq = NoApiReq
    /\ apiRes = NoApiRes

\* A request to a name, answered: res is what the fetch of the name does.
GET(name, category, res) ==
    /\ apiReq' = [route |-> name, category |-> category,
                  fetched |-> ~ (name = "msi-monthly" /\ category = ""),
                  upstream |-> res]
    /\ apiRes' =
          CASE name = "jobs-overview" -> jobsOverviewGET(res)
            [] name = "job-records" -> jobRecordsGET(res)
            [] name = "technician-performance" ->
                   technicianPerformanceGET(res)
            [] name = "rework-rate" -> reworkRateGET(res)
            [] name = "rework-rate-by-date" -> reworkRateByDateGET(res)
            [] name = "top-5-late-cars" -> top5LateCarsGET(res)
            [] name = "msi-monthly" -> msiMonthlyGET(category, res)
            [] name = "msi-late-last-30-days" -> msiLateLast30DaysGET(res)
    /\ UNCHANGED nonApiVars

ApiNext ==
    \E name \in Routes : \E res \in Upstreams :
       \E category \in (IF name = "msi-monthly" THEN Categories ELSE {""}) :
          GET(name, category, res)

\* ---------------------------------------------------------- the RO explorer
\* Calls of fetchData in a run; job records in the store.
MaxFetches == 4
StoredRecords == 102

\* pageSize of the page.
pageSize == 100

\* The filters of the page, none of them set.
NoFilters ==
    [technicianName |-> "", receivingDate |-> "", deliveryDate |-> "",
     promisedDate |-> ""]

\* The filters staged in the input fields when Apply Filters is clicked. A
\* technician name is typed without blanks around it: trim() leaves it as
\* it is.
StagedFilters ==
    { NoFilters,
      [NoFilters EXCEPT !.technicianName = Technicians[1]],
      [NoFilters EXCEPT !.receivingDate = "2025-01-03"] }

\* The job records of the store, in the order the API lists them.
JobRecord(i) ==
    [ro_no |-> i,
     technician_name |-> Technicians[(i % 2) + 1],
     receiving_date_time |-> IF i <= 2 THEN "2025-01-03" ELSE "2025-01-04",
     delivery_date_time |-> "2025-01-05",
     promised_date_time |-> "2025-01-05"]

\* params of fetchData: a filter is in the query only if it is set.
Params(p, filters) ==
    [page_number |-> p, page_size |-> pageSize,
     technician_name |-> filters.technicianName,
     receiving_date_time |-> filters.receivingDate,
     delivery_date_time |-> filters.deliveryDate,
     promised_date_time |-> filters.promisedDate]

\* GET /job-records: the page of the records that pass the filters.
JobRecords(params) ==
    LET Passes(r) ==
            /\ params.technician_name \in { "", r.technician_name }
            /\ params.receiving_date_time \in { "", r.receiving_date_time }
            /\ params.delivery_date_time \in { "", r.delivery_date_time }
            /\ params.promised_date_time \in { "", r.promised_date_time }
        all == SelectSeq([i \in 1 .. StoredRecords |-> JobRecord(i)], Passes)
        first == (params.page_number - 1) * params.page_size + 1
        last == IF params.page_number * params.page_size < Len(all)
                THEN params.page_number * params.page_size ELSE Len(all)
        rows == SubSeq(all, first, last)
    IN  [success |-> TRUE, no_of_rows |-> Len(rows), job_records |-> rows,
         total_records |-> Len(all)]

\* What fetch gives a call of fetchData that was not aborted.
JobRecordsReplies(params) ==
    { Resolved(200, "OK", "", JobRecords(params)),
      Resolved(200, "OK", "", [success |-> FALSE, detail |-> ""]),
      Resolved(503, "Service Unavailable", FailureText,
               [success |-> FALSE,
                detail |-> "Failed to fetch job records from FastAPI (status 503)"]),
      Rejected }

\* The error fetchData catches, NULL if nothing is thrown.
JobRecordsThrown(res) ==
    IF res.rejects THEN FetchFailedMsg
    ELSE IF ~ (res.status >= 200 /\ res.status <= 299)
    THEN IF res.data.detail # "" THEN res.data.detail
         ELSE "Failed to fetch job records (status " \o ToString(res.status)
                  \o ")."
    ELSE IF ~ res.data.success
    THEN IF res.data.detail # "" THEN res.data.detail
         ELSE "API responded with success=false."
    ELSE NULL

\* totalPages of the page.
totalPages ==
    IF totalRecords <= 0 THEN 1
    ELSE (totalRecords + pageSize - 1) \div pageSize

RoInit ==
    /\ page = 1
    /\ applied = NoFilters
    /\ records = << >>
    /\ noOfRows = 0
    /\ totalRecords = 0
    /\ loading = FALSE
    /\ error = NULL
    /\ inflight = {}
    /\ fetches = 0

\* The effect of the page runs for page p and the filters: the cleanup of
\* the effect before it aborts the call it made, and fetchData is called.
FetchDataEffect(p, filters) ==
    /\ fetches < MaxFetches
    /\ loading' = TRUE
    /\ error' = NULL
    /\ fetches' = fetches + 1
    /\ inflight' = { [r EXCEPT !.aborted = TRUE] : r \in inflight }
                      \cup { [id |-> fetches + 1, params |-> Params(p, filters),
                              aborted |-> FALSE] }

\* page and the applied filters are set: the effect runs if one of them has
\* changed.
SetDependencies(p, filters) ==
    /\ page' = p
    /\ applied' = filters
    /\ IF << p, filters >> # << page, applied >>
       THEN FetchDataEffect(p, filters)
       ELSE UNCHANGED << loading, error, fetches, inflight >>
    /\ UNCHANGED << records, noOfRows, totalRecords, nonRoVars >>

\* An aborted fetch rejects before the browser takes its next event.
NoAbortPending == \A r \in inflight : ~ r.aborted

\* The page is mounted: the effect runs for the first time.
MountExplorer ==
    /\ fetches = 0
    /\ FetchDataEffect(page, applied)
    /\ UNCHANGED << page, applied, records, noOfRows, totalRecords,
                    nonRoVars >>

\* handleApplyFilters, with the staged filters.
handleApplyFilters(staged) ==
    /\ fetches > 0
    /\ NoAbortPending
    /\ SetDependencies(1, staged)

\* resetFilters.
resetFilters ==
    /\ fetches > 0
    /\ NoAbortPending
    /\ SetDependencies(1, NoFilters)

\* The button of the previous page.
PreviousPage ==
    /\ fetches > 0
    /\ NoAbortPending
    /\ ~ (page = 1 \/ loading \/ totalRecords <= pageSize)
    /\ SetDependencies(IF page - 1 > 1 THEN page - 1 ELSE 1, applied)

\* The button of the next page.
NextPage ==
    /\ fetches > 0
    /\ NoAbortPending
    /\ ~ (page = totalPages \/ loading \/ totalRecords <= pageSize)
    /\ SetDependencies(IF page + 1 < totalPages THEN page + 1 ELSE totalPages,
                       applied)

\* fetchData goes on after its fetch: with a response that is OK and a
\* success it sets the rows, with any other it sets the error; finally
\* loading is false.
fetchDataReturns(r, res) ==
    /\ r \in inflight
    /\ ~ r.aborted
    /\ NoAbortPending
    /\ IF JobRecordsThrown(res) = NULL
       THEN /\ records' = res.data.job_records
            /\ noOfRows' = res.data.no_of_rows
            /\ totalRecords' = res.data.total_records
            /\ error' = error
       ELSE /\ error' = JobRecordsThrown(res)
            /\ records' = << >>
            /\ noOfRows' = 0
            /\ totalRecords' = totalRecords
    /\ loading' = FALSE
    /\ inflight' = inflight \ {r}
    /\ UNCHANGED << page, applied, fetches, nonRoVars >>

\* fetchData goes on after its fetch was aborted: the catch returns on the
\* AbortError; finally loading is false.
fetchDataAborted(r) ==
    /\ r \in inflight
    /\ r.aborted
    /\ loading' = FALSE
    /\ inflight' = inflight \ {r}
    /\ UNCHANGED << page, applied, records, noOfRows, totalRecords, error,
                    fetches, nonRoVars >>

RoNext ==
    \/ MountExplorer
    \/ \E staged \in StagedFilters : handleApplyFilters(staged)
    \/ resetFilters
    \/ PreviousPage
    \/ NextPage
    \/ \E r \in inflight : \E res \in JobRecordsReplies(r.params) :
          fetchDataReturns(r, res)
    \/ \E r \in inflight : fetchDataAborted(r)

\* ---------------------------------------------------------- specifications
\* The ingestion pipeline; the upload path at rest.
Init ==
    /\ IngestInit
    /\ UploadInit
    /\ NormInit
    /\ MetricInit
    /\ ReworkInit
    /\ DateInit
    /\ AuthInit
    /\ ApiInit
    /\ RoInit

Next == IngestNext

Spec == Init /\ [][Next]_vars

\* The upload path; the tables of the pipeline at rest.
UploadSpecInit ==
    /\ UploadInit
    /\ IngestInit
    /\ ~ logUnique
    /\ target = "repeat_repairs"
    /\ NormInit
    /\ MetricInit
    /\ ReworkInit
    /\ DateInit
    /\ AuthInit
    /\ ApiInit
    /\ RoInit

SpecUpload == UploadSpecInit /\ [][UploadNext]_vars

\* The upload path with the 45 s timer of handleSubmit: setTimeout runs its
\* callback unless clearTimeout comes first.
SpecUploadTimed == SpecUpload /\ WF_vars(BrowserTimeout)

\* The Row Normalizer; everything else at rest.
SpecNormalize == UploadSpecInit /\ [][NormNext]_vars

\* The Metrics Engine over the job rows; everything else at rest.
SpecMetrics == UploadSpecInit /\ [][MetricNext]_vars

\* The rework rate; everything else at rest.
SpecRework == UploadSpecInit /\ [][ReworkNext]_vars

\* The date helpers; everything else at rest.
SpecDates == UploadSpecInit /\ [][DateNext]_vars

\* Sign-in, logout and requests through the proxy; everything else at rest.
SpecAuth == UploadSpecInit /\ [][AuthNext]_vars

\* Requests of any client through the proxy; everything else at rest.
SpecProxy == UploadSpecInit /\ [][ProxyNext]_vars

\* The API routes; everything else at rest.
SpecApi == UploadSpecInit /\ [][ApiNext]_vars

\* The two pages that cache a response, with every reply of their routes,
\* over stores of the jobs of two technicians on one day and of the vehicles
\* of one month.
CacheJobRows ==
    { r \in JobRows : /\ r.technician_name \in { Technicians[1], Technicians[2] }
                      /\ r.service_date = 3
                      /\ r.delivery_date_time =
                             IF r.technician_name = Technicians[1]
                             THEN PromisedTime
                             ELSE PromisedTime + GraceWindow + 1 }

CacheVehicleRows == { r \in VehicleRows : r.month = << 2025, 1 >> }

CacheNext ==
    \/ \E row \in CacheJobRows : AddJob(row)
    \/ StartServing
    \/ \E res \in OverviewReplies : refreshOverview(res)
    \/ \E res \in OverviewReplies : MountOverview(res)
    \/ \E row \in CacheVehicleRows : AddVehicle(row)
    \/ StartReworkServing
    \/ \E res \in ReworkReplies : fetchAndCacheReworkRate(res)
    \/ \E res \in ReworkReplies : MountReworkRate(res)

SpecCache == UploadSpecInit /\ [][CacheNext]_vars

\* The RO explorer; everything else at rest.
SpecExplorer == UploadSpecInit /\ [][RoNext]_vars

\* ----------------------------------------------------------------- claims
\* The committed log entries of triple tr.
LogCount(tr) ==
    Cardinality({ e \in VisibleLog : e.table_name = tr[1] /\ e.mtime = tr[2] })

\* The committed log entries of table t whose batch contains key k.
EntriesWith(t, k) ==
    { e \in VisibleLog : e.table_name = t /\ e.mtime \in Mtimes
                         /\ HasKey(t, e.mtime, k) }

\* The file version of the batch with key k that committed last into t.
LastMtime(t, k) ==
    (CHOOSE e \in EntriesWith(t, k) :
        \A f \in EntriesWith(t, k) : f.cseq <= e.cseq).mtime

\* The rows a reader sees of key k in table t.
RowsOfKey(t, k) == { x \in Visible(t) : x.k = k }

Invocations(tr) ==
    Cardinality({ r \in Slots : pc[r] # "idle" /\ TripleOf(r) = tr })
    + commits[tr]

C3_FailedBatchLeavesNothing ==
    \A t \in Tables : Bag(t, Visible(t)) = shadow[t]

\* C3 witness: a batch wrote a row and then failed; the table is empty.
C3_Witness ==
    \E r \in Slots :
        /\ resp[r].status = "failed"
        /\ AutoIncrementId(target)
        /\ nextId[target] > 1
        /\ tbl[target] = {}
        /\ ncommit = 0

\* C4: log entry and batch commit together. The committed log entries are
\* one per committed batch, triple by triple; an uncommitted entry belongs
\* to an open transaction that has written its whole batch; every row a
\* reader sees was written by a batch whose entry is committed, and in the
\* append-only tables every committed entry has its rows; rows_inserted of
\* an entry is the number of rows of its batch, inserted or updated.
C4_LogCommitsWithData ==
    /\ \A tr \in Triples : LogCount(tr) = commits[tr]
    /\ Cardinality(VisibleLog) = ncommit
    /\ \A e \in ilog : e.owner # Nobody => pc[e.owner] = "logged"
    /\ \A t \in Tables : \A x \in Visible(t) : LogCount(<<t, x.src>>) >= 1
    /\ \A tr \in Triples :
         (AutoIncrementId(tr[1]) /\ LogCount(tr) >= 1)
            => \E x \in Visible(tr[1]) : x.src = tr[2]
    /\ \A e \in VisibleLog :
         e.rows_inserted = Len(FileRows(e.table_name, e.mtime))
    /\ \A r \in Slots :
         resp[r].status = "ok"
            => resp[r].rows_inserted = Len(FileRows(target, resp[r].mtime))

\* C4 witness: a second batch committed that only updated existing rows,
\* and its log entry counts them.
C4_Witness ==
    \E e \in VisibleLog :
        /\ e.table_name = "repeat_repairs"
        /\ e.cseq = 2
        /\ e.rows_inserted = 2
        /\ Cardinality(Visible("repeat_repairs")) = 2

C6_OneRowPerDate ==
    LET t == "repeat_repairs"
    IN  /\ \A x, y \in tbl[t] : x.k = y.k => x = y
        /\ \A d \in Keys(t) :
             IF EntriesWith(t, d) = {}
             THEN RowsOfKey(t, d) = {}
             ELSE /\ Cardinality(RowsOfKey(t, d)) = 1
                  /\ \A x \in RowsOfKey(t, d) : x.src = LastMtime(t, d)

\* C6 witness: the dates were ingested by two committed batches and the
\* table holds one row for each.
C6_Witness ==
    /\ Cardinality(EntriesWith("repeat_repairs", "D1")) = 2
    /\ Cardinality(Visible("repeat_repairs")) = 2
    /\ \A x \in Visible("repeat_repairs") : x.src = 2

C8_JobRecordsAppended ==
    LET t == "technician_reports"
    IN  /\ \A m \in Mtimes :
             Cardinality({ x \in Visible(t) : x.src = m })
                 = Len(FileRows(t, m)) * commits[<<t, m>>]
        /\ \A x \in Visible(t) :
             \E i \in 1..Len(FileRows(t, x.src)) :
                 /\ FileRows(t, x.src)[i].k = x.k
                 /\ FileRows(t, x.src)[i].c1 = x.c1
                 /\ FileRows(t, x.src)[i].c2 = x.c2
        /\ \A x, y \in tbl[t] : x.id = y.id => x = y

\* C8 witness: the same batch of two job lines committed twice under one
\* triple: four rows, each job line twice.
C8_Witness ==
    \E m \in Mtimes :
        /\ commits[<<"technician_reports", m>>] = 2
        /\ Cardinality({ x \in Visible("technician_reports") : x.src = m }) = 4

C10_AbortedUploadRolledBack ==
    \A id \in cancelled : id \notin store /\ id \notin logged

\* The rejected rows a response lists with a reason.
RejectedListed(r) ==
    IF "rejected" \in DOMAIN r THEN Len(r.rejected) ELSE 0

\* C11: the Row Normalizer gives one result per input row, in input order,
\* each a typed row or a rejection with a reason, and in the response of
\* every finished call the rows loaded plus the rejected rows listed with a
\* reason are as many as the input rows.
C11_ResponseReconcilesRows ==
    /\ \A i \in 1..Len(nresults) :
         /\ nresults[i].index = i
         /\ nresults[i].kind \in {"typed", "rejection"}
         /\ nresults[i].kind = "rejection" => nresults[i].reason # ""
    /\ nresp.success =>
         /\ Len(nresults) = Len(ninput)
         /\ nresp.data + RejectedListed(nresp) = Len(ninput)

\* The typed rows of a batch without their row numbers.
RECURSIVE Values(_, _, _)
Values(kind, rows, i) ==
    IF i > Len(rows) THEN << >>
    ELSE LET x == Typed(kind, rows[i], 0)
         IN  IF KeyOf(kind, rows[i]) = NULL THEN Values(kind, rows, i + 1)
             ELSE << [key |-> x.key, date |-> x.date, amount |-> x.amount] >>
                  \o Values(kind, rows, i + 1)

HasKeyCell(raw) == KeyOf(nkind, raw) # NULL

ValuesOf(results) ==
    [ i \in 1..Len(results) |->
        [key |-> results[i].key, date |-> results[i].date,
         amount |-> results[i].amount] ]

C13_RankingIsStrictTotalOrder ==
    overview.success =>
        LET d == overview.job_data
        IN  /\ \A i \in DOMAIN d : d[i].position = i
            /\ \A i, j \in DOMAIN d :
                   i < j =>
                       \/ d[i].efficiency_percent > d[j].efficiency_percent
                       \/ /\ d[i].efficiency_percent = d[j].efficiency_percent
                          /\ d[i].total_jobs > d[j].total_jobs
                       \/ /\ d[i].efficiency_percent = d[j].efficiency_percent
                          /\ d[i].total_jobs = d[j].total_jobs
                          /\ NameRank(d[i].technician)
                                 < NameRank(d[j].technician)
            /\ \A t \in TechnicianNames :
                   Cardinality({ i \in DOMAIN d : d[i].technician = t })
                       = IF CountJobs(RowsOfTechnician(t)) > 0 THEN 1 ELSE 0
            /\ LET shown == overallRanking
               IN  /\ Len(shown) = Len(d)
                   /\ \A i \in DOMAIN shown :
                          /\ shown[i].position = i
                          /\ shown[i].tech = d[i].technician

\* A ranking of three technicians is shown, two of which tie on
\* efficiency_percent and on total_jobs.
C13_Witness ==
    /\ overview.success
    /\ Len(overview.job_data) = 3
    /\ Len(overallRanking) = 3
    /\ \E i, j \in DOMAIN overview.job_data :
           /\ i < j
           /\ overview.job_data[i].efficiency_percent
                  = overview.job_data[j].efficiency_percent
           /\ overview.job_data[i].total_jobs = overview.job_data[j].total_jobs
    /\ \E i, j \in DOMAIN overview.job_data :
           overview.job_data[i].efficiency_percent
               > overview.job_data[j].efficiency_percent

\* The stored job rows the last technician-performance response is about.
PerfRows ==
    { r \in DOMAIN jobs : /\ r.technician_name = perf.technician_name
                          /\ perf.start_date <= r.service_date
                          /\ r.service_date <= perf.end_date }

\* C14: in a technician-performance response ontime_jobs counts the jobs of
\* the filter with delivery <= promised (delivery == promised included),
\* grace_jobs those with promised < delivery <= promised + grace window (the
\* boundary included), late_jobs the later ones; every job is in exactly one
\* of the three, so ontime_jobs + grace_jobs + late_jobs = total_jobs, and
\* the page shows these counts.
C14_ClassificationPartitionsJobs ==
    perf.success =>
        /\ perf.ontime_jobs =
               CountJobs({ r \in PerfRows :
                   r.delivery_date_time <= r.promised_date_time })
        /\ perf.grace_jobs =
               CountJobs({ r \in PerfRows :
                   /\ r.promised_date_time < r.delivery_date_time
                   /\ r.delivery_date_time
                          <= r.promised_date_time + GraceWindow })
        /\ perf.late_jobs =
               CountJobs({ r \in PerfRows :
                   r.delivery_date_time > r.promised_date_time + GraceWindow })
        /\ perf.total_jobs = CountJobs(PerfRows)
        /\ perf.ontime_jobs + perf.grace_jobs + perf.late_jobs
               = perf.total_jobs
        /\ techPerformance.onTime + techPerformance.grace
               + techPerformance.late = techPerformance.total

\* A response that counts a job delivered exactly at the promised time, one
\* delivered exactly at the end of the grace window and a later one.
C14_Witness ==
    /\ perf.success
    /\ perf.total_jobs = 3
    /\ \E r \in PerfRows : r.delivery_date_time = r.promised_date_time
    /\ \E r \in PerfRows :
           r.delivery_date_time = r.promised_date_time + GraceWindow
    /\ \E r \in PerfRows :
           r.delivery_date_time > r.promised_date_time + GraceWindow
    /\ perf.ontime_jobs = 1
    /\ perf.grace_jobs = 1
    /\ perf.late_jobs = 1

RECURSIVE SumCounts(_)
SumCounts(rows) ==
    IF rows = << >> THEN 0
    ELSE Head(rows).rework_count + SumCounts(Tail(rows))

\* C16: the rework_by_month list of a rework-rate response is in ascending
\* order of month with one entry per month, and its rework_count values sum
\* to total_rework.
C16_MonthsAscendInResponse ==
    rework.success =>
        LET d == rework.rework_by_month
        IN  /\ \A i, j \in DOMAIN d :
                   i < j => MonthBefore(d[i].month, d[j].month)
            /\ SumCounts(d) = rework.total_rework

\* C18: parsing a valid YYYY-MM-DD string and formatting the Date back gives
\* the same string, formatLocalDateToYYYYMMDD(parseYYYYMMDDToLocalDate(s)) =
\* s, and parsing the formatted string gives the Date of the first parse.
C18_DateRoundTrip ==
    /\ dateBack # NoText => dateBack = dateText
    /\ dateAgain # NoDate => dateAgain = dateValue

\* The last request was for a path that starts with /manager-dashboard.
AskedProtected ==
    /\ Len(lastReq.pathname) >= 18
    /\ SubSeq(lastReq.pathname, 1, 18) \in PROTECTED_PREFIXES

\* C19: the proxy lets a request for a path that starts with
\* /manager-dashboard through only if auth_banned is not '1', auth_session and
\* auth_exp are both present and not empty, auth_exp is a number and the time
\* of the request, in seconds, is strictly less than it; it answers every
\* other request for such a path with a redirect to '/', and lets every
\* request for another path through.
C19_ProxyGuardsDashboard ==
    lastRes.kind # "none" =>
        LET allowed ==
                /\ ~ (lastReq.banned.present
                          /\ lastReq.banned.value = << "1" >>)
                /\ lastReq.session.present
                /\ lastReq.session.value # << >>
                /\ lastReq.expStr.present
                /\ lastReq.expStr.value # << >>
                /\ IsNumeric(lastReq.expStr.value)
                /\ lastReq.now < Number(lastReq.expStr.value)
        IN  /\ ~ AskedProtected => lastRes.kind = "next"
            /\ (AskedProtected /\ allowed) => lastRes.kind = "next"
            /\ (AskedProtected /\ ~ allowed) =>
                   /\ lastRes.kind = "redirect"
                   /\ lastRes.location = << "/" >>

\* A request for a dashboard page is let through one second before the
\* expiry of its auth_exp.
C19_Witness ==
    /\ lastRes.kind = "next"
    /\ AskedProtected
    /\ lastReq.session.value = << "1" >>
    /\ IsNumeric(lastReq.expStr.value)
    /\ Number(lastReq.expStr.value) = lastReq.now + 1
    /\ lastReq.now > 0

\* C20: the absolute expiry is fixed at the first successful sign-in: after
\* any sign-ins, logouts and page requests auth_session is not valid and the
\* proxy does not grant access to a dashboard page at or after that first
\* expiry, and no later expiry is ever set in auth_exp.
C20_FirstExpiryIsAbsolute ==
    firstExp # 0 =>
        /\ (lastRes.kind = "next" /\ AskedProtected) => lastReq.now < firstExp
        /\ Live(auth_session, now) => now < firstExp
        /\ (Live(auth_exp, now) /\ IsNumeric(auth_exp.value)) =>
               Number(auth_exp.value) <= firstExp

\* The browser holds auth_banned=1.
Banned ==
    readCookie(auth_banned, now) = [present |-> TRUE, value |-> << "1" >>]

\* C21: once auth_banned=1 is set the ban is permanent: after every later
\* step auth_banned=1 is still there and auth_session is not set, and a
\* request of a /manager-dashboard path made in the step is redirected.
C21_BanIsPermanent ==
    [][ Banned =>
          /\ Banned'
          /\ ~ readCookie(auth_session, now)'.present
          /\ (lastReq' # lastReq /\ AskedProtected') =>
                 lastRes'.kind = "redirect" ]_vars

\* C22: a request for a /manager-dashboard path that carries auth_session and
\* auth_exp, with auth_exp not a number or the time of the request at or
\* after it, is answered with a redirect to the sign-in page that has
\* expired=1 in its URL, clears auth_session and auth_exp and sets
\* auth_banned=1.
C22_ExpiredSessionIsBannedAndTold ==
    ( /\ lastRes.kind # "none"
      /\ AskedProtected
      /\ lastReq.session.present /\ lastReq.session.value # << >>
      /\ lastReq.expStr.present /\ lastReq.expStr.value # << >>
      /\ \/ ~ IsNumeric(lastReq.expStr.value)
         \/ lastReq.now >= Number(lastReq.expStr.value) )
    => /\ lastRes.kind = "redirect"
       /\ lastRes.location = HomePath
       /\ lastRes.ban
       /\ lastRes.query = "expired=1"

\* The fields of the request body, and the file of each.
FormFields == { "technicianreport", "dailyreport", "reworkreport" }

\* The file is a PDF by its type or by its name, is not empty and has at
\* most 10 MB.
AcceptablePdf(f) ==
    /\ \/ f.type = "application/pdf"
       \/ /\ Len(f.name) >= 4
          /\ toLowerCase(SubSeq(f.name, Len(f.name) - 3, Len(f.name)))
                = << ".", "p", "d", "f" >>
    /\ f.size >= 1
    /\ f.size <= 10 * 1024 * 1024

\* C23: while a request of handleSubmit is in flight, its body holds the
\* technician report and the daily report that are selected, and the rework
\* report if one is selected; every file in it is a PDF, not empty and at
\* most 10 MB, and no two of its files have the same name and size.
C23_SentFilesAreValid ==
    submitting =>
        /\ formData.technicianreport = inputRef1
        /\ formData.dailyreport = inputRef2
        /\ formData.reworkreport = inputRef3
        /\ inputRef1 # NoFile
        /\ inputRef2 # NoFile
        /\ \A k \in FormFields :
              formData[k] # NoFile => AcceptablePdf(formData[k])
        /\ \A k, l \in FormFields :
              (k # l /\ formData[k] # NoFile /\ formData[l] # NoFile) =>
                 ~ (/\ formData[k].name = formData[l].name
                    /\ formData[k].size = formData[l].size)

\* A request with three files is in flight: two of the same name and of
\* different sizes, and one of exactly 10 MB that is a PDF by its name only.
C23_Witness ==
    /\ submitting
    /\ conn.state = "open"
    /\ formData.technicianreport.name = formData.dailyreport.name
    /\ formData.reworkreport.size = MAX_BYTES
    /\ formData.reworkreport.type = ""

\* C24: every upload handleSubmit starts ends: submitting is false again
\* and the 45 s timer is cleared; the timer is armed only while submitting;
\* successMsg and serverError are never both shown; and the step that ends
\* an upload empties the three file inputs when it shows the success
\* message and leaves them as they are when it does not.
C24_UploadEndsAndCleansUp ==
    /\ submitting ~> (~ submitting /\ timer = "off")
    /\ [](~ submitting => timer = "off")
    /\ [](~ (successMsg # "" /\ serverError # ""))
    /\ [][ (submitting /\ ~ submitting') =>
             IF successMsg' # ""
             THEN /\ serverError' = ""
                  /\ inputRef1' = NoFile
                  /\ inputRef2' = NoFile
                  /\ inputRef3' = NoFile
             ELSE /\ serverError' # ""
                  /\ UNCHANGED << inputRef1, inputRef2, inputRef3 >> ]_vars

\* An upload ended by the timer, and a later one ended by a success
\* response: the message is shown and the inputs are empty.
C24_Witness ==
    /\ ~ submitting
    /\ timer = "off"
    /\ cancelled # {}
    /\ successMsg = SubmittedMsg
    /\ inputRef1 = NoFile
    /\ file1Name = << >>
    /\ submits = 2

\* C25: every API route answers a non-OK response of FastAPI with the same
\* status and a JSON body that has success false, answers a fetch that
\* rejects or a body that does not parse with status 500 and success false,
\* and answers an OK response with the JSON of FastAPI, unchanged.
C25_RoutesFailAlike ==
    apiReq.fetched =>
        LET res == apiReq.upstream
            okRes == ~ res.rejects /\ res.status \in 200..299
            failed == /\ "success" \in DOMAIN apiRes.body
                      /\ apiRes.body.success = FALSE
        IN  /\ (~ res.rejects /\ ~ okRes) =>
                   apiRes.status = res.status /\ failed
            /\ (res.rejects \/ (okRes /\ res.text.value = NotJson)) =>
                   apiRes.status = 500 /\ failed
            /\ (okRes /\ res.text.value # NotJson) =>
                   apiRes.body = res.text.value

LiveFetches == { r \in inflight : ~ r.aborted }

\* C27: a call of fetchData that was superseded by a change of the page or
\* of the filters changes nothing of what the page shows: the call that is
\* not aborted is the one for the page and the filters applied last, loading
\* is true for as long as it has not returned, and once it has, the rows and
\* the error are those of its response.
C27_SupersededRequestIsInert ==
    /\ [](\A r \in LiveFetches : r.params = Params(page, applied))
    /\ [](LiveFetches # {} => loading)
    /\ []((fetches > 0 /\ inflight = {}) =>
             /\ ~ loading
             /\ IF error = NULL
                THEN records = JobRecords(Params(page, applied)).job_records
                ELSE records = << >>)
    /\ [][ \A r \in inflight :
             fetchDataAborted(r) =>
                 UNCHANGED << records, noOfRows, totalRecords, error,
                              loading >> ]_vars

====
